---------------------------- MODULE Spec2Model ----------------------------
(***************************************************************************)
(* Wildcard / complement pattern search on an Aho-Corasick automaton       *)
(* (createPatternStructure, buildForestFromPattern, forestIntoStateMachine,*)
(* getTotalMatches, destroyStateMachine and main of the C++ program).      *)
(*                                                                         *)
(* Characters are one-character strings; NUL is the string terminator.     *)
(* C arrays and pointers are 0-based: a std::string of size n is modelled  *)
(* by a sequence; Byte reads it the way the code reads c_str().  State and *)
(* Result objects live in two arenas (sequences); a pointer is an index    *)
(* into its arena and NULL is 0.                                           *)
(***************************************************************************)
EXTENDS Integers, Sequences, FiniteSets, TLC

\* ------------------------------------------------------------------ bounds
MaxPatLen == 4
MaxTextLen == 3

\* letters of the search text and of the literal parts of the pattern
Letters == {"a", "b"}
\* the two characters main reads after the pattern
WildcardChars == {"?"}
ComplementChars == {"~"}
NUL == "NUL"
\* outcomes of reading bytes behind the terminator of the pattern string:
\* how many of them happen to equal the wildcard
StrayWildcards == {0, 1}

NULL == 0

\* ----------------------------------------------------------------- helpers
SeqsUpTo(S, n) == UNION {[1..k -> S] : k \in 0..n}

Range(s) == {s[k] : k \in 1..Len(s)}

Min(S) == CHOOSE x \in S : \A y \in S : x <= y

\* ------------------------------------------------------------------- state
VARIABLES
    pc,            \* position in main: "parse", "build", "compile", "scan",
                   \* "scanned", "destroy", "done", "crash"
    search_s,      \* main: the searched line
    pattern,       \* main: the raw pattern line
    wildcard,      \* main: wildcard character
    complement,    \* main: complement marker (NUL when none was read)
    cps,           \* locals of createPatternStructure
    pat,           \* the Pattern returned by createPatternStructure
    aut,           \* the heap: State arena and Result arena
    bld,           \* loop counters of buildForestFromPattern
    fsm,           \* locals of forestIntoStateMachine
    sc,            \* locals of getTotalMatches
    run,           \* number of the getTotalMatches call in progress
    first_matches, \* what the first getTotalMatches call returned
    dsm,           \* locals of destroyStateMachine, and the freed objects
    ub,            \* the undefined behaviour executed so far (set of names)
    mf,            \* the max-flow program (lab3): graph and find_path locals
    kmp,           \* the parallel KMP search: ranges, goroutines, channel
    l5             \* the exact multi-pattern matcher (lab5)

\* the variables of the wildcard matcher
matcherVars == <<pc, search_s, pattern, wildcard, complement, cps, pat, aut,
                 bld, fsm, sc, run, first_matches, dsm, ub>>

vars == <<pc, search_s, pattern, wildcard, complement, cps, pat, aut, bld,
          fsm, sc, run, first_matches, dsm, ub, mf, kmp, l5>>

\* the value of the variable of a program that a specification does not run
Off == [pc |-> "off"]

\* ------------------------------------------------ createPatternStructure
\* *(hd + p) for 0 <= p <= pat.size(): c_str() is NUL-terminated
Byte(p) == IF p < Len(pattern) THEN pattern[p + 1] ELSE NUL

\* the inner for loop: first position from p holding NUL, the wildcard or
\* the complement marker
LiteralEnd(p) ==
    Min({e \in p..Len(pattern) : Byte(e) \in {NUL, wildcard, complement}})

\* for (; *pc == wildcard; ++pc) started inside the string
SkipWildcards(p) == Min({e \in p..Len(pattern) : Byte(e) # wildcard})

CpsInit == [pc |-> 0, extra_offset |-> 0, parts |-> << >>, compls |-> << >>]

\* one iteration of the while loop of createPatternStructure, its locals
\* c before and after; stray is the number of bytes behind the terminator
\* that compare equal to the wildcard (read only when pc ran past it)
CpsIteration(c, stray) ==
    LET end == LiteralEnd(c.pc)
        parts2 == IF end # c.pc
                  THEN Append(c.parts, [offset |-> c.pc - c.extra_offset,
                                        chars |-> c.pc,
                                        length |-> end - c.pc])
                  ELSE c.parts
        isCompl == complement # NUL /\ Byte(end) = complement
        compls2 == IF isCompl
                   THEN Append(c.compls, [index |-> end - c.extra_offset,
                                          ch |-> Byte(end + 1)])
                   ELSE c.compls
        pc2 == IF isCompl THEN end + 2 ELSE end
        extra2 == IF isCompl THEN c.extra_offset + 1 ELSE c.extra_offset
        pc3 == IF pc2 > Len(pattern) THEN pc2 + stray ELSE SkipWildcards(pc2)
    IN [pc |-> pc3, extra_offset |-> extra2, parts |-> parts2,
        compls |-> compls2]

\* whether the iteration from locals c reads *pc behind the terminator
CpsReadsPastEnd(c) ==
    LET end == LiteralEnd(c.pc)
    IN complement # NUL /\ Byte(end) = complement /\ end + 2 > Len(pattern)

CreatePatternIter ==
    /\ pc = "parse"
    /\ cps.pc < Len(pattern)
    /\ \E stray \in StrayWildcards :
         /\ (~CpsReadsPastEnd(cps)) => stray = 0
         /\ cps' = CpsIteration(cps, stray)
    /\ ub' = IF CpsReadsPastEnd(cps) THEN ub \cup {"cps_read_past_end"} ELSE ub
    /\ UNCHANGED <<pc, search_s, pattern, wildcard, complement, pat, aut, bld,
                   fsm, sc, run, first_matches, dsm>>
    /\ UNCHANGED <<mf, kmp, l5>>

CreatePatternReturn ==
    /\ pc = "parse"
    /\ cps.pc >= Len(pattern)
    /\ pat' = [parts |-> cps.parts, complement |-> cps.compls,
               length |-> Len(pattern) - cps.extra_offset]
    /\ cps' = CpsInit
    /\ pc' = "build"
    /\ UNCHANGED <<search_s, pattern, wildcard, complement, aut, bld,
                   fsm, sc, run, first_matches, dsm, ub>>
    /\ UNCHANGED <<mf, kmp, l5>>

\* ------------------------------------------------------- State and Result
\* struct State: results_back is 0 for &this->results and r for
\* &Result[r].next (it only ever points into the state's own list)
NewState == [transitions |-> << >>, fallback |-> NULL, results |-> NULL,
             results_back |-> 0]

EmptyHeap == [State |-> << >>, Result |-> << >>]

\* *stt->results_back = v
StoreThroughBack(A, stt, v) ==
    IF A.State[stt].results_back = 0
    THEN [A EXCEPT !.State[stt].results = v]
    ELSE [A EXCEPT !.Result[A.State[stt].results_back].next = v]

\* addResult putting the new Result at the head of the list
addResult_AtHead(A, stt, pat_idx, length) ==
    LET nr == Len(A.Result) + 1
        A1 == [A EXCEPT !.Result =
                 Append(@, [pat_idx |-> pat_idx, length |-> length,
                            next |-> A.State[stt].results])]
    IN [A1 EXCEPT !.State[stt].results = nr,
                  !.State[stt].results_back =
                      IF @ = 0 THEN nr ELSE @]

addResult(A, stt, pat_idx, length) ==
    LET nr == Len(A.Result) + 1
        A1 == [A EXCEPT !.Result =
                 Append(@, [pat_idx |-> pat_idx, length |-> length,
                            next |-> NULL])]
        A2 == StoreThroughBack(A1, stt, nr)
    IN [A2 EXCEPT !.State[stt].results_back = nr]

\* findTransition that never finds a transition
findTransition_NeverFinds(A, stt, ch) == 0

\* the index in stt->transitions of the first transition on ch, 0 for nullptr
findTransition(A, stt, ch) ==
    LET ts == A.State[stt].transitions
        hits == {k \in 1..Len(ts) : ts[k].ch = ch}
    IN IF hits = {} THEN 0 ELSE Min(hits)

TransitionDest(A, stt, k) == A.State[stt].transitions[k].dest

RECURSIVE extendForestFrom(_, _, _, _, _)
\* the loop of extendForest from byte number i (0-based) in state s
extendForestFrom(A, s, chars, i, idx) ==
    IF i >= Len(chars)
    THEN addResult(A, s, idx, Len(chars))
    ELSE LET c == chars[i + 1]
             t == findTransition(A, s, c)
         IN IF t # 0
            THEN extendForestFrom(A, TransitionDest(A, s, t), chars, i + 1, idx)
            ELSE LET ns == Len(A.State) + 1
                     A1 == [A EXCEPT !.State =
                              Append([@ EXCEPT ![s].transitions =
                                        Append(@, [ch |-> c, dest |-> ns])],
                                     NewState)]
                 IN extendForestFrom(A1, ns, chars, i + 1, idx)

extendForest(A, root, chars, idx) == extendForestFrom(A, root, chars, 0, idx)

\* ------------------------------------------------ buildForestFromPattern
Root == 1

\* the bytes part.chars[0 .. part.length) of the pattern string
PartChars(part) == [k \in 1..part.length |-> Byte(part.chars + k - 1)]

\* the loop the code is in once counter i of loop `loop' is reached
BldAt(P, loop, i) ==
    IF loop = "parts" /\ i < Len(P.parts) THEN [loop |-> "parts", i |-> i]
    ELSE IF loop = "parts" THEN
        (IF Len(P.complement) > 0 THEN [loop |-> "complement", i |-> 0]
         ELSE [loop |-> "return", i |-> 0])
    ELSE IF i < Len(P.complement) THEN [loop |-> "complement", i |-> i]
    ELSE [loop |-> "return", i |-> 0]

BldInit == [loop |-> "root", i |-> 0]

BuildPartStep(A, P, i) ==
    extendForest(A, Root, PartChars(P.parts[i + 1]), i)

BuildComplementStep(A, P, i) ==
    extendForest(A, Root, << P.complement[i + 1].ch >>, Len(P.parts) + i)

RECURSIVE BuildLoop(_, _, _)
BuildLoop(A, P, b) ==
    IF b.loop = "parts"
    THEN BuildLoop(BuildPartStep(A, P, b.i), P, BldAt(P, "parts", b.i + 1))
    ELSE IF b.loop = "complement"
    THEN BuildLoop(BuildComplementStep(A, P, b.i), P,
                   BldAt(P, "complement", b.i + 1))
    ELSE A

\* the heap after buildForestFromPattern(P) has returned
buildForestFromPattern(P) ==
    BuildLoop([State |-> << NewState >>, Result |-> << >>], P,
              BldAt(P, "parts", 0))

BuildRoot ==
    /\ pc = "build"
    /\ bld.loop = "root"
    /\ aut' = [State |-> << NewState >>, Result |-> << >>]
    /\ bld' = BldAt(pat, "parts", 0)
    /\ UNCHANGED <<pc, search_s, pattern, wildcard, complement, cps, pat,
                   fsm, sc, run, first_matches, dsm, ub>>
    /\ UNCHANGED <<mf, kmp, l5>>

BuildPart ==
    /\ pc = "build"
    /\ bld.loop = "parts"
    /\ aut' = BuildPartStep(aut, pat, bld.i)
    /\ bld' = BldAt(pat, "parts", bld.i + 1)
    /\ UNCHANGED <<pc, search_s, pattern, wildcard, complement, cps, pat,
                   fsm, sc, run, first_matches, dsm, ub>>
    /\ UNCHANGED <<mf, kmp, l5>>

BuildComplement ==
    /\ pc = "build"
    /\ bld.loop = "complement"
    /\ aut' = BuildComplementStep(aut, pat, bld.i)
    /\ bld' = BldAt(pat, "complement", bld.i + 1)
    /\ UNCHANGED <<pc, search_s, pattern, wildcard, complement, cps, pat,
                   fsm, sc, run, first_matches, dsm, ub>>
    /\ UNCHANGED <<mf, kmp, l5>>

BuildReturn ==
    /\ pc = "build"
    /\ bld.loop = "return"
    /\ bld' = BldInit
    /\ pc' = "compile"
    /\ fsm' = [q |-> << Root >>, s |-> NULL, sf |-> NULL, t |-> 0]
    /\ UNCHANGED <<search_s, pattern, wildcard, complement, cps, pat, aut,
                   sc, run, first_matches, dsm, ub>>
    /\ UNCHANGED <<mf, kmp, l5>>

\* ------------------------------------------------ forestIntoStateMachine
\* findFallback returning the state that has the transition, not its dest
findFallback_ReturnsParent(A, parent, ch) ==
    IF parent = NULL THEN NULL
    ELSE IF findTransition(A, parent, ch) # 0 THEN parent
    ELSE NULL

RECURSIVE findFallback(_, _, _)
findFallback(A, parent, ch) ==
    IF parent = NULL THEN NULL
    ELSE LET t == findTransition(A, parent, ch)
         IN IF t # 0 THEN TransitionDest(A, parent, t)
            ELSE findFallback(A, A.State[parent].fallback, ch)

FsmInit == [q |-> << >>, s |-> NULL, sf |-> NULL, t |-> 0]

\* leaves the for loop over s->transitions when t has reached its end
FsmLoopAt(A, f) ==
    IF f.s # NULL /\ f.t >= Len(A.State[f.s].transitions)
    THEN [f EXCEPT !.s = NULL, !.sf = NULL, !.t = 0]
    ELSE f

\* q.front(), q.pop(), sf = s->fallback
FsmPopStep(A, f) ==
    FsmLoopAt(A, [q |-> Tail(f.q), s |-> Head(f.q),
                  sf |-> A.State[Head(f.q)].fallback, t |-> 0])

\* the for body making dest its own fallback when findFallback finds none
FsmTransitionHeap_SelfWhenNone(A, f) ==
    LET tr == A.State[f.s].transitions[f.t + 1]
        d == tr.dest
        df == findFallback(A, f.sf, tr.ch)
        A1 == [A EXCEPT !.State[d].fallback = IF df # NULL THEN df ELSE d]
    IN StoreThroughBack(A1, d, NULL)

\* the for body looking for the fallback from s itself, not from s->fallback
FsmTransitionHeap_FallbackFromSelf(A, f) ==
    LET tr == A.State[f.s].transitions[f.t + 1]
        d == tr.dest
        df == findFallback(A, f.s, tr.ch)
        A1 == [A EXCEPT !.State[d].fallback = IF df # NULL THEN df ELSE Root]
    IN StoreThroughBack(A1, d, A1.State[A1.State[d].fallback].results)

\* the for body attaching the list of the root instead of the fallback's
FsmTransitionHeap_AttachRootList(A, f) ==
    LET tr == A.State[f.s].transitions[f.t + 1]
        d == tr.dest
        df == findFallback(A, f.sf, tr.ch)
        A1 == [A EXCEPT !.State[d].fallback = IF df # NULL THEN df ELSE Root]
    IN StoreThroughBack(A1, d, A1.State[Root].results)

\* the body of the for loop for transition number f.t of f.s: the heap after
FsmTransitionHeap(A, f) ==
    LET tr == A.State[f.s].transitions[f.t + 1]
        d == tr.dest
        df == findFallback(A, f.sf, tr.ch)
        A1 == [A EXCEPT !.State[d].fallback = IF df # NULL THEN df ELSE Root]
    IN StoreThroughBack(A1, d, A1.State[A1.State[d].fallback].results)

\* the locals after the body of the for loop
FsmTransitionLocals(A, f) ==
    FsmLoopAt(A, [f EXCEPT !.q = Append(@, A.State[f.s].transitions[f.t + 1].dest),
                           !.t = @ + 1])

RECURSIVE FsmRun(_, _)
FsmRun(A, f) ==
    IF f.s # NULL
    THEN FsmRun(FsmTransitionHeap(A, f), FsmTransitionLocals(A, f))
    ELSE IF f.q # << >> THEN FsmRun(A, FsmPopStep(A, f))
    ELSE A

\* the heap after forestIntoStateMachine(root) has returned
forestIntoStateMachine(A) ==
    FsmRun(A, [q |-> << Root >>, s |-> NULL, sf |-> NULL, t |-> 0])

FsmPop ==
    /\ pc = "compile"
    /\ fsm.s = NULL
    /\ fsm.q # << >>
    /\ fsm' = FsmPopStep(aut, fsm)
    /\ UNCHANGED <<pc, search_s, pattern, wildcard, complement, cps, pat, aut,
                   bld, sc, run, first_matches, dsm, ub>>
    /\ UNCHANGED <<mf, kmp, l5>>

FsmTransition ==
    /\ pc = "compile"
    /\ fsm.s # NULL
    /\ aut' = FsmTransitionHeap(aut, fsm)
    /\ fsm' = FsmTransitionLocals(aut, fsm)
    /\ UNCHANGED <<pc, search_s, pattern, wildcard, complement, cps, pat,
                   bld, sc, run, first_matches, dsm, ub>>
    /\ UNCHANGED <<mf, kmp, l5>>

\* ---------------------------------------------------------- stepMatching
\* stepMatching that gives up at the first missing transition
stepMatching_ResetOnMiss(A, cs, c) ==
    LET t == findTransition(A, cs, c)
    IN IF t # 0 THEN [cs |-> TransitionDest(A, cs, t), ok |-> TRUE]
       ELSE [cs |-> Root, ok |-> FALSE]

\* stepMatching that restarts at the root instead of following fallback
stepMatching_RestartAtRoot(A, cs, c) ==
    LET t == findTransition(A, cs, c)
        t0 == findTransition(A, Root, c)
    IN IF t # 0 THEN [cs |-> TransitionDest(A, cs, t), ok |-> TRUE]
       ELSE IF t0 # 0 THEN [cs |-> TransitionDest(A, Root, t0), ok |-> TRUE]
       ELSE [cs |-> Root, ok |-> FALSE]

RECURSIVE stepMatching(_, _, _)
\* [cs |-> the new *cs, ok |-> the returned bool]
stepMatching(A, cs, c) ==
    LET t == findTransition(A, cs, c)
    IN IF t # 0 THEN [cs |-> TransitionDest(A, cs, t), ok |-> TRUE]
       ELSE IF A.State[cs].fallback # NULL
       THEN stepMatching(A, A.State[cs].fallback, c)
       ELSE [cs |-> cs, ok |-> FALSE]

\* ------------------------------------------------------- getTotalMatches
SizeBits == 64

RECURSIVE TwoPowMod(_, _)
\* 2^k mod m
TwoPowMod(k, m) == IF k = 0 THEN 1 % m ELSE (2 * TwoPowMod(k - 1, m)) % m

\* ((size_t) x) % m for a difference x of size_t values that may have
\* wrapped around below zero
SizeTMod(x, m) ==
    IF x >= 0 THEN x % m ELSE (TwoPowMod(SizeBits, m) + (x % m)) % m

\* the locals of getTotalMatches before the for loop
ScInit(P) ==
    [i |-> 0, match_shift |-> 0,
     partial_matches |-> [k \in 0..(P.length - 1) |-> 0],
     disabled |-> [k \in 0..(P.length - 1) |-> FALSE],
     matches |-> << >>, cs |-> Root, r |-> NULL, at |-> "top"]

InVector(v, k) == k \in DOMAIN v

\* the loop head without the reset of slot match_shift
ScanStepLocals_NoReset(A, str, S) ==
    LET st == stepMatching(A, S.cs, str[S.i + 1])
        r == IF st.ok THEN A.State[st.cs].results ELSE NULL
    IN [S EXCEPT !.cs = st.cs, !.r = r,
                 !.at = IF r # NULL THEN "records" ELSE "emit"]

\* loop head: reset of slot match_shift (inside the vectors), stepMatching,
\* r = cs->results
ScanStepLocals(A, str, S) ==
    LET st == stepMatching(A, S.cs, str[S.i + 1])
        r == IF st.ok THEN A.State[st.cs].results ELSE NULL
    IN [S EXCEPT !.partial_matches[S.match_shift] = 0,
                 !.disabled[S.match_shift] = FALSE,
                 !.cs = st.cs, !.r = r,
                 !.at = IF r # NULL THEN "records" ELSE "emit"]

\* total_off taken at the first byte of a part instead of its last
TotalOff_PartStart(P, rec) ==
    IF rec.pat_idx >= Len(P.parts)
    THEN P.complement[rec.pat_idx - Len(P.parts) + 1].index
    ELSE P.parts[rec.pat_idx + 1].offset

\* total_off of Result rec
TotalOff(P, rec) ==
    IF rec.pat_idx >= Len(P.parts)
    THEN P.complement[rec.pat_idx - Len(P.parts) + 1].index
    ELSE P.parts[rec.pat_idx + 1].offset + rec.length - 1

\* the range tests without the first one, i < total_off
RecordInRange_NoLowerTest(P, str, S, rec) ==
    ~((S.i - TotalOff(P, rec)) + P.length > Len(str))

\* whether the body of the record loop gets past both `continue's
RecordInRange(P, str, S, rec) ==
    /\ ~(S.i < TotalOff(P, rec))
    /\ ~((S.i - TotalOff(P, rec)) + P.length > Len(str))

\* idx with total_off added to match_shift instead of subtracted
SlotIdx_AddsOffset(P, S, rec) ==
    SizeTMod(P.length + S.match_shift + TotalOff(P, rec), P.length)

\* idx = (pat.length + match_shift - total_off) % pat.length in size_t
SlotIdx(P, S, rec) ==
    SizeTMod(P.length + S.match_shift - TotalOff(P, rec), P.length)

\* the Result loop body counting a literal in the slot being written
\* (match_shift) instead of slot idx
ScanRecordLocals_LiteralWrongSlot(A, P, str, S) ==
    LET rec == A.Result[S.r]
        isCompl == rec.pat_idx >= Len(P.parts)
        idx == SlotIdx(P, S, rec)
        S1 == IF ~RecordInRange(P, str, S, rec) THEN S
              ELSE IF isCompl THEN [S EXCEPT !.disabled[idx] = TRUE]
              ELSE IF ~S.disabled[idx]
              THEN [S EXCEPT !.partial_matches[S.match_shift] = @ + 1]
              ELSE S
    IN [S1 EXCEPT !.r = rec.next,
                  !.at = IF rec.next # NULL THEN "records" ELSE "emit"]

\* the Result loop body with a complement disabling the slot being written
\* (match_shift) instead of slot idx
ScanRecordLocals_ComplementWrongSlot(A, P, str, S) ==
    LET rec == A.Result[S.r]
        isCompl == rec.pat_idx >= Len(P.parts)
        idx == SlotIdx(P, S, rec)
        S1 == IF ~RecordInRange(P, str, S, rec) THEN S
              ELSE IF isCompl THEN [S EXCEPT !.disabled[S.match_shift] = TRUE]
              ELSE IF ~S.disabled[idx]
              THEN [S EXCEPT !.partial_matches[idx] = @ + 1]
              ELSE S
    IN [S1 EXCEPT !.r = rec.next,
                  !.at = IF rec.next # NULL THEN "records" ELSE "emit"]

\* the Result loop body without the test of disabled[idx] for a literal
ScanRecordLocals_NoDisabledCheck(A, P, str, S) ==
    LET rec == A.Result[S.r]
        isCompl == rec.pat_idx >= Len(P.parts)
        idx == SlotIdx(P, S, rec)
        S1 == IF ~RecordInRange(P, str, S, rec) THEN S
              ELSE IF isCompl THEN [S EXCEPT !.disabled[idx] = TRUE]
              ELSE [S EXCEPT !.partial_matches[idx] = @ + 1]
    IN [S1 EXCEPT !.r = rec.next,
                  !.at = IF rec.next # NULL THEN "records" ELSE "emit"]

\* one iteration of the loop over the Results of cs (P.length > 0)
ScanRecordLocals(A, P, str, S) ==
    LET rec == A.Result[S.r]
        isCompl == rec.pat_idx >= Len(P.parts)
        idx == SlotIdx(P, S, rec)
        S1 == IF ~RecordInRange(P, str, S, rec) THEN S
              ELSE IF isCompl THEN [S EXCEPT !.disabled[idx] = TRUE]
              ELSE IF ~S.disabled[idx]
              THEN [S EXCEPT !.partial_matches[idx] = @ + 1]
              ELSE S
    IN [S1 EXCEPT !.r = rec.next,
                  !.at = IF rec.next # NULL THEN "records" ELSE "emit"]

NextShift(P, S) ==
    IF S.match_shift + 1 = P.length THEN 0 ELSE S.match_shift + 1

\* the match test without the window test (i + 1) >= pat.length
EmitCondition_NoWindowTest(P, S) ==
    /\ ~S.disabled[NextShift(P, S)]
    /\ S.partial_matches[NextShift(P, S)] = Len(P.parts)

\* the match test with the window test off by one: (i + 1) > pat.length
EmitCondition_StrictWindow(P, S) ==
    /\ (S.i + 1) > P.length
    /\ ~S.disabled[NextShift(P, S)]
    /\ S.partial_matches[NextShift(P, S)] = Len(P.parts)

\* the three-part condition of the final if, all reads inside the vectors
EmitCondition(P, S) ==
    /\ (S.i + 1) >= P.length
    /\ ~S.disabled[NextShift(P, S)]
    /\ S.partial_matches[NextShift(P, S)] = Len(P.parts)

\* the end of the loop body reporting the slot number as the start
ScanEmitLocals_SlotAsStart(P, S) ==
    [S EXCEPT !.match_shift = NextShift(P, S),
              !.matches = IF EmitCondition(P, S)
                          THEN Append(@, NextShift(P, S)) ELSE @,
              !.i = @ + 1, !.at = "top"]

\* the end of the loop body: ++match_shift, the match test, ++i
ScanEmitLocals(P, S) ==
    [S EXCEPT !.match_shift = NextShift(P, S),
              !.matches = IF EmitCondition(P, S)
                          THEN Append(@, S.i + 1 - P.length) ELSE @,
              !.i = @ + 1, !.at = "top"]

RECURSIVE ScanRun(_, _, _, _)
ScanRun(A, P, str, S) ==
    IF S.at = "records" THEN ScanRun(A, P, str, ScanRecordLocals(A, P, str, S))
    ELSE IF S.at = "emit"
    THEN ScanRun(A, P, str, ScanEmitLocals(P, S))
    ELSE IF S.i < Len(str) THEN ScanRun(A, P, str, ScanStepLocals(A, str, S))
    ELSE S.matches

\* what getTotalMatches(root, P, str) returns on heap A (P.length > 0)
getTotalMatches(A, P, str) == ScanRun(A, P, str, ScInit(P))

FsmReturn ==
    /\ pc = "compile"
    /\ fsm.s = NULL
    /\ fsm.q = << >>
    /\ fsm' = FsmInit
    /\ pc' = "scan"
    /\ sc' = ScInit(pat)
    /\ UNCHANGED <<search_s, pattern, wildcard, complement, cps, pat, aut,
                   bld, run, first_matches, dsm, ub>>
    /\ UNCHANGED <<mf, kmp, l5>>

\* A vector of size 0 owns no storage (its data pointer is null), so the
\* access partial_matches[match_shift] of an empty vector faults.
ScanStep ==
    /\ pc = "scan"
    /\ sc.at = "top"
    /\ sc.i < Len(search_s)
    /\ IF InVector(sc.partial_matches, sc.match_shift)
       THEN /\ sc' = ScanStepLocals(aut, search_s, sc)
            /\ UNCHANGED <<pc, ub>>
       ELSE /\ ub' = ub \cup {"vector_index"}
            /\ pc' = "crash"
            /\ sc' = sc
    /\ UNCHANGED <<search_s, pattern, wildcard, complement, cps, pat, aut,
                   bld, fsm, run, first_matches, dsm>>
    /\ UNCHANGED <<mf, kmp, l5>>

\* the Result loop using cs->results itself as the cursor, which unlinks
\* every Result it has processed
ScanRecord_ConsumesList ==
    /\ pc = "scan"
    /\ sc.at = "records"
    /\ pat.length > 0
    /\ sc' = ScanRecordLocals(aut, pat, search_s, sc)
    /\ aut' = [aut EXCEPT !.State[sc.cs].results = aut.Result[sc.r].next]
    /\ UNCHANGED <<pc, ub, search_s, pattern, wildcard, complement, cps, pat,
                   bld, fsm, run, first_matches, dsm>>
    /\ UNCHANGED <<mf, kmp, l5>>

ScanRecord ==
    /\ pc = "scan"
    /\ sc.at = "records"
    /\ IF pat.length = 0 /\ RecordInRange(pat, search_s, sc, aut.Result[sc.r])
       THEN /\ ub' = ub \cup {"modulo_zero"}
            /\ pc' = "crash"
            /\ sc' = sc
       ELSE /\ sc' = ScanRecordLocals(aut, pat, search_s, sc)
            /\ UNCHANGED <<pc, ub>>
    /\ UNCHANGED <<search_s, pattern, wildcard, complement, cps, pat, aut,
                   bld, fsm, run, first_matches, dsm>>
    /\ UNCHANGED <<mf, kmp, l5>>

ScanEmit ==
    /\ pc = "scan"
    /\ sc.at = "emit"
    /\ IF (sc.i + 1) >= pat.length
          /\ ~InVector(sc.disabled, NextShift(pat, sc))
       THEN /\ ub' = ub \cup {"vector_index"}
            /\ pc' = "crash"
            /\ sc' = sc
       ELSE /\ sc' = ScanEmitLocals(pat, sc)
            /\ UNCHANGED <<pc, ub>>
    /\ UNCHANGED <<search_s, pattern, wildcard, complement, cps, pat, aut,
                   bld, fsm, run, first_matches, dsm>>
    /\ UNCHANGED <<mf, kmp, l5>>

ScanReturn ==
    /\ pc = "scan"
    /\ sc.at = "top"
    /\ sc.i >= Len(search_s)
    /\ pc' = "scanned"
    /\ UNCHANGED <<search_s, pattern, wildcard, complement, cps, pat, aut,
                   bld, fsm, sc, run, first_matches, dsm, ub>>
    /\ UNCHANGED <<mf, kmp, l5>>

\* a second getTotalMatches call on the same automaton, Pattern and text
Rescan ==
    /\ pc = "scanned"
    /\ run = 1
    /\ first_matches' = sc.matches
    /\ run' = 2
    /\ sc' = ScInit(pat)
    /\ pc' = "scan"
    /\ UNCHANGED <<search_s, pattern, wildcard, complement, cps, pat, aut,
                   bld, fsm, dsm, ub>>
    /\ UNCHANGED <<mf, kmp, l5>>

\* --------------------------------------------------- destroyStateMachine
DsmInit == [q |-> << >>, freedState |-> {}, freedResult |-> {}]

RECURSIVE ResultChain(_, _)
\* the Results reached from r by next
ResultChain(A, r) ==
    IF r = NULL THEN << >> ELSE << r >> \o ResultChain(A, A.Result[r].next)

StartDestroy ==
    /\ pc = "scanned"
    /\ pc' = "destroy"
    /\ dsm' = [dsm EXCEPT !.q = << Root >>]
    /\ UNCHANGED <<search_s, pattern, wildcard, complement, cps, pat, aut,
                   bld, fsm, sc, run, first_matches, ub>>
    /\ UNCHANGED <<mf, kmp, l5>>

\* the iteration without *s->results_back = nullptr: the list is freed
\* with its inherited tail
DestroyPop_NoDetach ==
    /\ pc = "destroy"
    /\ dsm.q # << >>
    /\ LET s == Head(dsm.q)
           own == ResultChain(aut, aut.State[s].results)
       IN /\ aut' = aut
          /\ dsm' = [q |-> Tail(dsm.q) \o
                           [k \in 1..Len(aut.State[s].transitions) |->
                              aut.State[s].transitions[k].dest],
                     freedState |-> dsm.freedState \cup {s},
                     freedResult |-> dsm.freedResult \cup Range(own)]
          /\ ub' = IF s \in dsm.freedState
                      \/ Range(own) \cap dsm.freedResult # {}
                      \/ Len(own) # Cardinality(Range(own))
                   THEN ub \cup {"use_after_free"} ELSE ub
    /\ UNCHANGED <<pc, search_s, pattern, wildcard, complement, cps, pat,
                   bld, fsm, sc, run, first_matches>>
    /\ UNCHANGED <<mf, kmp, l5>>

\* one iteration of the while loop of destroyStateMachine
DestroyPop ==
    /\ pc = "destroy"
    /\ dsm.q # << >>
    /\ LET s == Head(dsm.q)
           A1 == StoreThroughBack(aut, s, NULL)
           own == ResultChain(A1, A1.State[s].results)
       IN /\ aut' = A1
          /\ dsm' = [q |-> Tail(dsm.q) \o
                           [k \in 1..Len(aut.State[s].transitions) |->
                              aut.State[s].transitions[k].dest],
                     freedState |-> dsm.freedState \cup {s},
                     freedResult |-> dsm.freedResult \cup Range(own)]
          /\ ub' = IF s \in dsm.freedState
                      \/ Range(own) \cap dsm.freedResult # {}
                      \/ Len(own) # Cardinality(Range(own))
                   THEN ub \cup {"use_after_free"} ELSE ub
    /\ UNCHANGED <<pc, search_s, pattern, wildcard, complement, cps, pat,
                   bld, fsm, sc, run, first_matches>>
    /\ UNCHANGED <<mf, kmp, l5>>

DestroyReturn ==
    /\ pc = "destroy"
    /\ dsm.q = << >>
    /\ pc' = "done"
    /\ UNCHANGED <<search_s, pattern, wildcard, complement, cps, pat, aut,
                   bld, fsm, sc, run, first_matches, dsm, ub>>
    /\ UNCHANGED <<mf, kmp, l5>>

\* ------------------------------------------------------------------ main
Init ==
    /\ pc = "parse"
    /\ search_s \in SeqsUpTo(Letters, MaxTextLen)
    /\ wildcard \in WildcardChars
    /\ complement \in ComplementChars
    /\ pattern \in SeqsUpTo(Letters \cup {wildcard, complement}, MaxPatLen)
    /\ cps = CpsInit
    /\ pat = [parts |-> << >>, complement |-> << >>, length |-> 0]
    /\ aut = EmptyHeap
    /\ bld = BldInit
    /\ fsm = FsmInit
    /\ sc = ScInit([length |-> 0])
    /\ run = 1
    /\ first_matches = << >>
    /\ dsm = DsmInit
    /\ ub = {}
    /\ mf = Off
    /\ kmp = Off
    /\ l5 = Off

Next ==
    \/ CreatePatternIter
    \/ CreatePatternReturn
    \/ BuildRoot
    \/ BuildPart
    \/ BuildComplement
    \/ BuildReturn
    \/ FsmPop
    \/ FsmTransition
    \/ FsmReturn
    \/ ScanStep
    \/ ScanRecord
    \/ ScanEmit
    \/ ScanReturn
    \/ Rescan
    \/ StartDestroy
    \/ DestroyPop
    \/ DestroyReturn

Spec == Init /\ [][Next]_vars

\* ===================================================== properties checked
\* getTotalMatches has returned to main
Returned == pc \in {"scanned", "destroy", "done"}

\* the Pattern data-model invariants: offsets inside the pattern, parts
\* disjoint, at most one complement per offset
WellFormed(P) ==
    /\ \A k \in 1..Len(P.parts) :
         /\ P.parts[k].offset < P.length
         /\ P.parts[k].length >= 1
    /\ \A k \in 1..Len(P.complement) : P.complement[k].index < P.length
    /\ \A j, k \in 1..Len(P.parts) :
         j # k => \/ P.parts[j].offset + P.parts[j].length <= P.parts[k].offset
                  \/ P.parts[k].offset + P.parts[k].length <= P.parts[j].offset
    /\ \A j, k \in 1..Len(P.complement) :
         j # k => P.complement[j].index # P.complement[k].index

\* the pattern P occurs in str at start s: every literal part is there at
\* its offset, and no complement finds its forbidden character
OccursAt(P, str, s) ==
    /\ \A k \in 1..Len(P.parts) : \A j \in 0..(P.parts[k].length - 1) :
         /\ s + P.parts[k].offset + j < Len(str)
         /\ str[s + P.parts[k].offset + j + 1] = Byte(P.parts[k].chars + j)
    /\ \A k \in 1..Len(P.complement) :
         ~(/\ s + P.complement[k].index < Len(str)
           /\ str[s + P.complement[k].index + 1] = P.complement[k].ch)

ExpectedStarts(P, str) ==
    {s \in 0..(Len(str) - P.length) : OccursAt(P, str, s)}

\* C1: for a Pattern that satisfies the data-model invariants and has
\* total_length >= 1, the returned matches are exactly the start offsets s
\* in 0 .. len(text) - total_length at which every literal part occurs and no
\* complement meets its forbidden character; overlapping ones included.
C1_ScanExact ==
    (Returned /\ WellFormed(pat) /\ pat.length >= 1)
        => Range(sc.matches) = ExpectedStarts(pat, search_s)

\* two reported occurrences of a pattern with a literal part and a complement
\* overlap
C1_Witness ==
    /\ Returned /\ WellFormed(pat) /\ pat.length >= 2
    /\ Len(pat.parts) >= 1 /\ Len(pat.complement) >= 1
    /\ \E j, k \in 1..Len(sc.matches) :
         /\ sc.matches[j] < sc.matches[k]
         /\ sc.matches[k] < sc.matches[j] + pat.length

RECURSIVE NaiveFrom(_, _, _)
\* naive substring search: the starts >= s of lit in str, in increasing order
NaiveFrom(lit, str, s) ==
    IF s + Len(lit) > Len(str) THEN << >>
    ELSE (IF SubSeq(str, s + 1, s + Len(lit)) = lit THEN << s >> ELSE << >>)
         \o NaiveFrom(lit, str, s + 1)

\* the Pattern is one literal part that covers the whole pattern
SingleLiteral(P) ==
    /\ Len(P.parts) = 1 /\ P.complement = << >>
    /\ P.parts[1].offset = 0 /\ P.parts[1].length = P.length

\* C2: for a pattern without wildcards and complements the scan returns
\* what a naive substring search of the literal returns.
C2_EqualsNaiveSearch ==
    (Returned /\ SingleLiteral(pat))
        => sc.matches = NaiveFrom(PartChars(pat.parts[1]), search_s, 0)

\* a literal of two characters found twice, the occurrences overlapping
C2_Witness ==
    /\ Returned /\ SingleLiteral(pat) /\ pat.length >= 2
    /\ Len(sc.matches) >= 2
    /\ sc.matches[2] < sc.matches[1] + pat.length

\* the Pattern is all wildcards
AllWildcard(P) == P.parts = << >> /\ P.complement = << >> /\ P.length >= 1

\* C3: an all-wildcard pattern of length L >= 1 matches at every start
\* offset in 0 .. len(text) - L and nowhere else.
C3_AllWildcardMatchesEverywhere ==
    (Returned /\ AllWildcard(pat))
        => /\ Len(sc.matches) = (IF Len(search_s) >= pat.length
                                 THEN Len(search_s) - pat.length + 1 ELSE 0)
           /\ \A k \in 1..Len(sc.matches) : sc.matches[k] = k - 1

\* an all-wildcard pattern of length 2 reported at both start offsets of a
\* text of length 3
C3_Witness ==
    /\ Returned /\ AllWildcard(pat) /\ pat.length = 2
    /\ aut.State[Root].transitions = << >>
    /\ Len(search_s) = 3
    /\ sc.matches = << 0, 1 >>

\* Pattern P without its complement number j
WithoutComplement(P, j) ==
    [P EXCEPT !.complement = SubSeq(@, 1, j - 1) \o SubSeq(@, j + 1, Len(@))]

\* offset o of P lies in no literal part
WildcardOffset(P, o) ==
    /\ o < P.length
    /\ \A k \in 1..Len(P.parts) :
         o < P.parts[k].offset \/ o >= P.parts[k].offset + P.parts[k].length

\* the starts a scan of the search text returns for Pattern P: the forest
\* built, compiled and scanned as the code does
ScanOf(P) ==
    Range(getTotalMatches(forestIntoStateMachine(buildForestFromPattern(P)),
                          P, search_s))

\* C4 as stated: adding a complement at a wildcard offset o whose forbidden
\* character is text[s + o] removes the start s of the original result and
\* every other start of the original result is still reported.
C4_OnlyThatStartRemoved ==
    (pc = "scanned" /\ WellFormed(pat) /\ pat.length >= 1)
        => \A j \in 1..Len(pat.complement) :
             LET c == pat.complement[j]
                 base == ScanOf(WithoutComplement(pat, j))
             IN WildcardOffset(pat, c.index)
                => \A s \in base :
                     search_s[s + c.index + 1] = c.ch
                       => /\ s \notin Range(sc.matches)
                          /\ \A s2 \in base \ {s} : s2 \in Range(sc.matches)

\* C4 (amended): the added complement removes every start s of the original
\* result with text[s + o] equal to the forbidden character, and every start
\* of the original result whose own byte at offset o differs from the
\* forbidden character is still reported.
C4_ComplementRemovesItsStarts ==
    (pc = "scanned" /\ WellFormed(pat) /\ pat.length >= 1)
        => \A j \in 1..Len(pat.complement) :
             LET c == pat.complement[j]
                 base == ScanOf(WithoutComplement(pat, j))
             IN WildcardOffset(pat, c.index)
                => \A s \in base :
                     IF search_s[s + c.index + 1] = c.ch
                     THEN s \notin Range(sc.matches)
                     ELSE s \in Range(sc.matches)

\* the complement removed one start of the original result and left another
C4_Witness ==
    /\ pc = "scanned" /\ WellFormed(pat) /\ pat.length >= 1
    /\ Len(pat.parts) >= 1
    /\ \E j \in 1..Len(pat.complement) :
         LET c == pat.complement[j]
             base == ScanOf(WithoutComplement(pat, j))
         IN /\ WildcardOffset(pat, c.index)
            /\ \E s, s2 \in base :
                 /\ search_s[s + c.index + 1] = c.ch
                 /\ s \notin Range(sc.matches)
                 /\ s2 \in Range(sc.matches)

\* the Result the scan is about to process
CurrentRecord == aut.Result[sc.r]

IsComplementRecord(rec) == rec.pat_idx >= Len(pat.parts)

\* one step of a scan of a well-formed Pattern of length >= 1
C5_Step ==
    (pc = "scan" /\ pc' = "scan" /\ WellFormed(pat) /\ pat.length >= 1)
        => /\ \A k \in 0..(pat.length - 1) :
                sc.disabled[k]
                  => \/ sc.at = "top" /\ sc.match_shift = k
                     \/ /\ sc'.disabled[k]
                        /\ sc'.partial_matches[k] = sc.partial_matches[k]
           /\ (sc.at = "records" /\ IsComplementRecord(CurrentRecord)
                 /\ RecordInRange(pat, search_s, sc, CurrentRecord))
                => sc'.disabled[(sc.i - TotalOff(pat, CurrentRecord))
                                  % pat.length]
           /\ (sc.at = "emit" /\ sc.i + 1 >= pat.length
                 /\ sc.disabled[(sc.i + 1 - pat.length) % pat.length])
                => sc'.matches = sc.matches

\* C5: a complement observed for start s sets disabled[s mod total_length];
\* the slot stays set, and its counter unchanged, until it is reset at
\* position s + total_length (after the window of s has closed), and the
\* closing position of a disabled start emits nothing.
C5_ComplementDisablesForGood == [][C5_Step]_vars

\* a literal record arrives for a start that a complement has disabled
C5_Witness ==
    /\ pc = "scan" /\ WellFormed(pat) /\ pat.length >= 2
    /\ sc.at = "records"
    /\ ~IsComplementRecord(CurrentRecord)
    /\ RecordInRange(pat, search_s, sc, CurrentRecord)
    /\ sc.disabled[(sc.i - TotalOff(pat, CurrentRecord)) % pat.length]

StrictlyIncreasing(s) == \A j, k \in 1..Len(s) : j < k => s[j] < s[k]

C6_Step ==
    (pc = "scan" /\ pc' = "scan")
        => \/ sc'.matches = sc.matches
           \/ /\ sc.at = "emit"
              /\ sc.i + 1 >= pat.length
              /\ sc'.i = sc.i + 1
              /\ sc'.matches = Append(sc.matches, sc.i + 1 - pat.length)

\* C6: the matches are strictly increasing (so none is reported twice); a
\* step of the scan adds at most one match, only at the end of a position i
\* with i + 1 >= total_length, and the match is i + 1 - total_length.
C6_IncreasingOnePerPosition ==
    [](StrictlyIncreasing(sc.matches)) /\ [][C6_Step]_vars

\* two matches have been reported
C6_Witness ==
    /\ Returned /\ Len(sc.matches) >= 2 /\ Len(pat.parts) >= 1
    /\ sc.matches[1] < sc.matches[2]

\* C7: a pattern longer than the text (the empty text included) gives no
\* match; a pattern as long as the text gives no match or the match 0.
C7_Boundary ==
    Returned
        => /\ pat.length > Len(search_s) => sc.matches = << >>
           /\ pat.length = Len(search_s) => sc.matches \in {<< >>, << 0 >>}

\* a pattern of the length of the text matched at 0
C7_Witness ==
    /\ Returned /\ pat.length = Len(search_s) /\ pat.length >= 2
    /\ Len(pat.parts) >= 1
    /\ sc.matches = << 0 >>

\* C8 as stated: an empty pattern is no error: the scan completes without
\* an access outside partial_matches and disabled, and returns no match.
C8_EmptyPatternNoError ==
    (pattern = << >> /\ pc \notin {"parse", "build", "compile"})
        => /\ "vector_index" \notin ub
           /\ pc # "crash"
           /\ sc.matches = << >>

\* the Pattern breaks a data-model invariant
Malformed(P) == ~WellFormed(P)

\* C9 as stated: a malformed Pattern is rejected before any automaton state
\* is built, and is never scanned.
C9_MalformedRejected ==
    (pc # "parse" /\ Malformed(pat))
        => /\ aut.State = << >>
           /\ pc \notin {"compile", "scan", "scanned"}

C10_Step == (pc = "scan") => aut' = aut

\* C10: the second getTotalMatches call on the same automaton, Pattern and
\* text returns the matches of the first call in the same order, and no step
\* of a scan changes a State or a Result of the automaton.
C10_Idempotent ==
    []((pc = "scanned" /\ run = 2) => sc.matches = first_matches)
    /\ [][C10_Step]_vars

\* a second call has returned the two matches the first call returned
C10_Witness ==
    /\ pc = "scanned" /\ run = 2
    /\ WellFormed(pat) /\ Len(pat.parts) >= 1
    /\ Len(first_matches) >= 2
    /\ sc.matches = first_matches
    /\ Len(aut.Result) >= 2

\* ------------------------------------------------ the compiled automaton
\* forestIntoStateMachine has returned and destroyStateMachine has not begun
Compiled == pc \in {"scan", "scanned"}

\* the own records of state s: the list it has in the forest F that
\* buildForestFromPattern returned
OwnRecords(F, s) == ResultChain(F, F.State[s].results)

RECURSIVE ClosedList(_, _, _)
\* the own records of s, then those of every state on its fallback chain
ClosedList(A, F, s) ==
    IF s = NULL THEN << >>
    ELSE OwnRecords(F, s) \o ClosedList(A, F, A.State[s].fallback)

NoDuplicates(l) == \A j, k \in 1..Len(l) : j # k => l[j] # l[k]

\* C11: in the compiled automaton the list reached from state.results is
\* the state's own records followed by the own records of the states on its
\* fallback chain up to the root, every record once.
C11_SuffixClosed ==
    Compiled =>
        LET F == buildForestFromPattern(pat)
        IN \A s \in 1..Len(aut.State) :
               LET l == ResultChain(aut, aut.State[s].results)
               IN /\ l = ClosedList(aut, F, s)
                  /\ NoDuplicates(l)

\* a state with an own record has inherited the record of its fallback, a
\* state below the root
C11_Witness ==
    /\ Compiled
    /\ \E s \in 1..Len(aut.State) :
         /\ OwnRecords(buildForestFromPattern(pat), s) # << >>
         /\ aut.State[s].fallback \notin {NULL, Root}
         /\ OwnRecords(buildForestFromPattern(pat),
                       aut.State[s].fallback) # << >>
         /\ Len(ResultChain(aut, aut.State[s].results)) >= 2

RECURSIVE PathOf(_, _)
\* the bytes on the transitions from the root to state s
PathOf(A, s) ==
    IF s = Root THEN << >>
    ELSE LET p == CHOOSE p \in 1..Len(A.State) :
                     \E k \in 1..Len(A.State[p].transitions) :
                         A.State[p].transitions[k].dest = s
             k == CHOOSE k \in 1..Len(A.State[p].transitions) :
                     A.State[p].transitions[k].dest = s
         IN Append(PathOf(A, p), A.State[p].transitions[k].ch)

RECURSIVE WalkFrom(_, _, _)
\* the state reached from s along the bytes w, NULL when the path leaves
\* the trie
WalkFrom(A, s, w) ==
    IF w = << >> THEN s
    ELSE LET t == findTransition(A, s, Head(w))
         IN IF t = 0 THEN NULL
            ELSE WalkFrom(A, TransitionDest(A, s, t), Tail(w))

Suffix(w, n) == SubSeq(w, Len(w) - n + 1, Len(w))

\* the length of the longest proper suffix of w that is a path from the root
LongestProperSuffix(A, w) ==
    CHOOSE n \in 0..(Len(w) - 1) :
        /\ WalkFrom(A, Root, Suffix(w, n)) # NULL
        /\ \A m \in (n + 1)..(Len(w) - 1) :
               WalkFrom(A, Root, Suffix(w, m)) = NULL

\* C12: in the compiled automaton the fallback of a state below the root,
\* reached by w, is the state reached by the longest proper suffix of w that
\* is a path from the root (the root when only the empty suffix is), and the
\* fallback of the root is null.
C12_FallbackLongestSuffix ==
    Compiled =>
        /\ aut.State[Root].fallback = NULL
        /\ \A s \in 2..Len(aut.State) :
               LET w == PathOf(aut, s)
               IN aut.State[s].fallback =
                      WalkFrom(aut, Root,
                               Suffix(w, LongestProperSuffix(aut, w)))

\* a state three bytes deep falls back to a state two bytes deep
C12_Witness ==
    /\ Compiled
    /\ \E s \in 2..Len(aut.State) :
         /\ Len(PathOf(aut, s)) = 3
         /\ aut.State[s].fallback # NULL
         /\ Len(PathOf(aut, aut.State[s].fallback)) = 2

\* the length of the longest suffix of w that is a path from the root
LongestSuffix(A, w) ==
    CHOOSE n \in 0..Len(w) :
        /\ WalkFrom(A, Root, Suffix(w, n)) # NULL
        /\ \A m \in (n + 1)..Len(w) : WalkFrom(A, Root, Suffix(w, m)) = NULL

\* the number of bytes of the text stepMatching has been called on
Stepped == IF sc.at = "top" THEN sc.i ELSE sc.i + 1

C13_State ==
    pc = "scan" =>
        LET w == SubSeq(search_s, 1, Stepped)
        IN sc.cs = WalkFrom(aut, Root, Suffix(w, LongestSuffix(aut, w)))

C13_Step ==
    (pc = "scan" /\ sc.at = "top" /\ sc'.at # "top") =>
        LET w == SubSeq(search_s, 1, sc.i + 1)
            ok == stepMatching(aut, sc.cs, search_s[sc.i + 1]).ok
        IN /\ ~ok <=> LongestSuffix(aut, w) = 0
           /\ ~ok => findTransition(aut, Root, search_s[sc.i + 1]) = 0
           /\ ~ok => sc'.cs = Root /\ sc'.r = NULL
           /\ ok => sc'.r = aut.State[sc'.cs].results

\* C13: after getTotalMatches has stepped over text[0..i], cs is the state
\* whose path is the longest suffix of text[0..i] that is a path of the trie;
\* stepMatching returns false exactly when that suffix is empty; the root
\* then has no transition for text[i], and cs is the root.
C13_LongestSuffixState == []C13_State /\ [][C13_Step]_vars

\* the third byte of the text has been stepped over and cs is two bytes
\* deep: a fallback link was followed
C13_Witness ==
    /\ pc = "scan" /\ sc.at # "top" /\ sc.i = 2
    /\ Len(PathOf(aut, sc.cs)) = 2
    /\ WalkFrom(aut, sc.cs, << search_s[3] >>) = NULL

\* the list of state s is closed in heap A: own records, then those of the
\* fallback chain
ListClosed(A, F, s) ==
    ResultChain(A, A.State[s].results) = ClosedList(A, F, s)

\* the for body of forestIntoStateMachine runs for dest
C14_Step ==
    (pc = "compile" /\ fsm.s # NULL) =>
        LET F == buildForestFromPattern(pat)
            d == aut.State[fsm.s].transitions[fsm.t + 1].dest
            fb == aut'.State[d].fallback
        IN /\ aut.State[d].fallback = NULL
           /\ fb # NULL /\ fb # d
           /\ fb # Root => aut.State[fb].fallback # NULL
           /\ aut'.State[fb] = aut.State[fb]
           /\ ListClosed(aut, F, fb)
           /\ ListClosed(aut', F, d)
           /\ \A s \in 1..Len(aut.State) :
                  s # d => aut'.State[s] = aut.State[s]

\* C14: when the for body of forestIntoStateMachine gives dest its fallback
\* and attaches the fallback's list, the fallback state (if not the root)
\* already has its own fallback and its list is already closed, and the
\* step changes no other state, so dest's list is closed by the step.
C14_FallbackClosedFirst == [][C14_Step]_vars

\* the last state pushed on the queue has received the non-empty list of a
\* fallback below the root
C14_Witness ==
    /\ pc = "compile" /\ fsm.q # << >>
    /\ LET d == fsm.q[Len(fsm.q)]
       IN /\ aut.State[d].fallback \notin {NULL, Root}
          /\ aut.State[aut.State[d].fallback].results # NULL
          /\ OwnRecords(buildForestFromPattern(pat), d) # << >>
          /\ Len(ResultChain(aut, aut.State[d].results)) >= 2

\* the record loop is at a Result that passes both range tests, so that the
\* body writes slot idx for the candidate start i - total_off
RecordApplies ==
    /\ pc = "scan" /\ sc.at = "records" /\ pat.length > 0
    /\ RecordInRange(pat, search_s, sc, CurrentRecord)

RecordStart == sc.i - TotalOff(pat, CurrentRecord)

\* C15 as stated: while position i is processed, the slot match_shift (the
\* one just reset) stands for the candidate that starts at
\* i - total_length + 1, so a record written to it is one of that candidate.
C15_SlotIsWindowStart ==
    (RecordApplies /\ SlotIdx(pat, sc, CurrentRecord) = sc.match_shift)
        => RecordStart = sc.i - pat.length + 1

\* C15 amended: while position i is processed match_shift is
\* i mod total_length, and a record written to a slot is one of the candidate
\* start with that residue: slot match_shift stands for the candidate that
\* starts at i, and the candidate that starts at i - total_length + 1 is in
\* slot (i + 1) mod total_length.
C15_SlotIsCandidateAtI ==
    (pc = "scan" /\ pat.length > 0) =>
        /\ sc.match_shift = sc.i % pat.length
        /\ RecordApplies =>
             /\ SlotIdx(pat, sc, CurrentRecord) = RecordStart % pat.length
             /\ SlotIdx(pat, sc, CurrentRecord) = sc.match_shift
                    => RecordStart \in {sc.i, sc.i - pat.length}
             /\ (WellFormed(pat)
                   /\ SlotIdx(pat, sc, CurrentRecord) = sc.match_shift)
                    => RecordStart = sc.i
             /\ RecordStart = sc.i - pat.length + 1
                    => SlotIdx(pat, sc, CurrentRecord)
                           = (sc.i + 1) % pat.length

\* at position 1 of a two-byte pattern a record of the candidate that
\* starts at 1 is written to the slot just reset
C15_Witness ==
    /\ RecordApplies
    /\ WellFormed(pat) /\ pat.length >= 2
    /\ sc.i >= 1
    /\ SlotIdx(pat, sc, CurrentRecord) = sc.match_shift
    /\ RecordStart = sc.i
    /\ RecordStart # sc.i - pat.length + 1

\* the last position r <= i at which slot k was reset: the loop head at
\* position r resets slot r mod total_length (-1 when there is none)
LastReset(k, i) ==
    LET rs == {r \in 0..i : r % pat.length = k}
    IN IF rs = {} THEN -1 ELSE CHOOSE r \in rs : \A q \in rs : q <= r

\* the slots other than those in K are left alone by the step
SlotsUnchangedExcept(K) ==
    \A k \in (0..(pat.length - 1)) \ K :
        /\ sc'.partial_matches[k] = sc.partial_matches[k]
        /\ sc'.disabled[k] = sc.disabled[k]

C16_Step ==
    (pc = "scan" /\ pc' = "scan" /\ pat.length > 0) =>
        /\ sc.at = "top" =>
             /\ sc'.partial_matches[sc.i % pat.length] = 0
             /\ ~sc'.disabled[sc.i % pat.length]
             /\ SlotsUnchangedExcept({sc.i % pat.length})
        /\ sc.at = "records" =>
             IF RecordApplies
             THEN /\ SlotsUnchangedExcept({SlotIdx(pat, sc, CurrentRecord)})
                  /\ LastReset(SlotIdx(pat, sc, CurrentRecord), sc.i)
                         = RecordStart
             ELSE SlotsUnchangedExcept({})
        /\ sc.at = "emit" =>
             /\ SlotsUnchangedExcept({})
             /\ sc'.match_shift = (sc.i + 1) % pat.length
             /\ sc'.matches # sc.matches =>
                  /\ sc'.matches = Append(sc.matches,
                                          LastReset(sc'.match_shift, sc.i))
                  /\ LastReset(sc'.match_shift, sc.i)
                         = sc.i + 1 - pat.length
                  /\ ~sc.disabled[sc'.match_shift]
                  /\ sc.partial_matches[sc'.match_shift] = Len(pat.parts)

\* C16: the loop head at position i resets slot i mod total_length and no
\* other, so a slot is reset once per total_length scanned characters; a
\* record is written only to the slot that was last reset at the record's
\* own candidate start; the emission test at position i reads the slot last
\* reset at i + 1 - total_length, whose writes since are therefore those of
\* the candidate that starts there.
C16_SlotResetPerWindow == [][C16_Step]_vars

\* a candidate has matched, its slot has been reset for the next candidate
\* and holds nothing of the old one at the next emission test
C16_Witness ==
    /\ pc = "scan" /\ sc.at = "emit" /\ sc.i >= pat.length
    /\ Len(pat.parts) >= 1
    /\ sc.matches = << sc.i - pat.length >>
    /\ sc.partial_matches[(sc.i + 1) % pat.length] = 0

\* the size_t value pat.length + match_shift - total_off before the modulo
IdxDividend == pat.length + sc.match_shift - TotalOff(pat, CurrentRecord)

\* the record loop body runs for a Result of a well-formed Pattern
C17_Step ==
    (pc = "scan" /\ pc' = "scan" /\ sc.at = "records" /\ pat.length > 0
       /\ WellFormed(pat)) =>
        IF \/ sc.i < TotalOff(pat, CurrentRecord)
           \/ RecordStart + pat.length > Len(search_s)
        THEN SlotsUnchangedExcept({})
        ELSE /\ IdxDividend >= 0
             /\ IdxDividend < 2 * pat.length
             /\ SlotIdx(pat, sc, CurrentRecord) = IdxDividend % pat.length
             /\ SlotIdx(pat, sc, CurrentRecord) = RecordStart % pat.length
             /\ SlotIdx(pat, sc, CurrentRecord) \in 0..(pat.length - 1)
             /\ SlotsUnchangedExcept({RecordStart % pat.length})

\* C17: for a Pattern that satisfies the data-model invariants, a record
\* with i < total_off or start + total_length > len(text) changes no slot;
\* for any other record total_length + match_shift - total_off does not go
\* below zero and idx is start mod total_length, inside the vectors.
C17_IdxNoUnderflow == [][C17_Step]_vars

\* a record in range whose total_off is larger than match_shift, so that
\* match_shift - total_off alone would wrap around
C17_Witness ==
    /\ RecordApplies /\ WellFormed(pat)
    /\ sc.match_shift < TotalOff(pat, CurrentRecord)
    /\ SlotIdx(pat, sc, CurrentRecord) = RecordStart % pat.length

\* literal fragment number k (from 1) of the Pattern is in the text at its
\* offset from candidate start s
PartOccursAt(k, s) ==
    \A j \in 0..(pat.parts[k].length - 1) :
        /\ s + pat.parts[k].offset + j < Len(search_s)
        /\ search_s[s + pat.parts[k].offset + j + 1]
               = Byte(pat.parts[k].chars + j)

\* the fragments of candidate s whose last byte is among the first n bytes
\* of the text and which occur there
PartsSeen(s, n) ==
    {k \in 1..Len(pat.parts) :
        /\ s + pat.parts[k].offset + pat.parts[k].length <= n
        /\ PartOccursAt(k, s)}

\* the candidate starts whose slot is live once n bytes have been stepped
\* over: inside the text, not yet reset for a later start
LiveStarts(n) ==
    {s \in 0..(n - 1) : s + pat.length > n - 1 /\ s + pat.length <= Len(search_s)}

\* C18: every (literal fragment, candidate start) pair is counted at most
\* once: no counter exceeds the number of fragments, between two positions
\* the counter of a live candidate that is not disabled is the number of its
\* fragments seen so far, and when its window closes the counter is the
\* number of its fragments that occur at their offset.
C18_CountedOnce ==
    (pc = "scan" /\ pat.length > 0) =>
        /\ \A k \in 0..(pat.length - 1) :
               sc.partial_matches[k] <= Len(pat.parts)
        /\ sc.at # "records" =>
               \A s \in LiveStarts(Stepped) :
                   ~sc.disabled[s % pat.length] =>
                       sc.partial_matches[s % pat.length]
                           = Cardinality(PartsSeen(s, Stepped))
        /\ (sc.at = "emit" /\ sc.i + 1 >= pat.length
              /\ ~sc.disabled[(sc.i + 1) % pat.length]) =>
               sc.partial_matches[(sc.i + 1) % pat.length]
                   = Cardinality({k \in 1..Len(pat.parts) :
                                    PartOccursAt(k, sc.i + 1 - pat.length)})

\* the window of a candidate with two fragments closes with one of them
\* counted: the other does not occur
C18_Witness ==
    /\ pc = "scan" /\ sc.at = "emit" /\ sc.i + 1 >= pat.length
    /\ Len(pat.parts) = 2
    /\ ~sc.disabled[(sc.i + 1) % pat.length]
    /\ sc.partial_matches[(sc.i + 1) % pat.length] = 1

\* the byte strings buildForestFromPattern has passed to extendForest so far
InsertedStrings ==
    LET np == IF pc = "build" /\ bld.loop = "parts" THEN bld.i
              ELSE Len(pat.parts)
        nc == IF pc = "build" /\ bld.loop = "parts" THEN 0
              ELSE IF pc = "build" /\ bld.loop = "complement" THEN bld.i
              ELSE Len(pat.complement)
    IN {PartChars(pat.parts[k]) : k \in 1..np}
         \cup {<< pat.complement[k].ch >> : k \in 1..nc}

NonEmptyPrefixes(W) == UNION {{SubSeq(w, 1, n) : n \in 1..Len(w)} : w \in W}

\* the forest exists: its root has been allocated, nothing has been freed
ForestBuilt ==
    \/ pc = "build" /\ bld.loop # "root"
    \/ pc \in {"compile", "scan", "scanned"}

C19_State ==
    ForestBuilt =>
        /\ \A s \in 1..Len(aut.State) :
               \A j, k \in 1..Len(aut.State[s].transitions) :
                   j # k => aut.State[s].transitions[j].ch
                              # aut.State[s].transitions[k].ch
        /\ \A s \in 2..Len(aut.State) :
               Cardinality({p \in 1..Len(aut.State) :
                              \E k \in 1..Len(aut.State[p].transitions) :
                                  aut.State[p].transitions[k].dest = s}) = 1
        /\ \A s \in 2..Len(aut.State) :
               WalkFrom(aut, Root, PathOf(aut, s)) = s
        /\ {PathOf(aut, s) : s \in 2..Len(aut.State)}
               = NonEmptyPrefixes(InsertedStrings)
        /\ Len(aut.State) = 1 + Cardinality(NonEmptyPrefixes(InsertedStrings))

\* one extendForest call: the states it creates are the prefixes of the
\* inserted string that were no path before, each owned by one state
C19_Step ==
    (pc = "build" /\ bld.loop \in {"parts", "complement"}) =>
        LET w == IF bld.loop = "parts" THEN PartChars(pat.parts[bld.i + 1])
                 ELSE << pat.complement[bld.i + 1].ch >>
            missing == {n \in 1..Len(w) :
                          WalkFrom(aut, Root, SubSeq(w, 1, n)) = NULL}
        IN /\ Len(aut'.State) = Len(aut.State) + Cardinality(missing)
           /\ \A s \in 1..Len(aut.State) :
                  \/ aut'.State[s].transitions = aut.State[s].transitions
                  \/ /\ Len(aut'.State[s].transitions)
                            = Len(aut.State[s].transitions) + 1
                     /\ SubSeq(aut'.State[s].transitions, 1,
                               Len(aut.State[s].transitions))
                            = aut.State[s].transitions
                     /\ aut'.State[s].transitions
                            [Len(aut'.State[s].transitions)].dest
                            > Len(aut.State)
           /\ \A n \in 1..Len(w) :
                  n \notin missing =>
                      WalkFrom(aut', Root, SubSeq(w, 1, n))
                          = WalkFrom(aut, Root, SubSeq(w, 1, n))

\* C19: in the forest every state has at most one transition per byte and
\* the states below the root correspond one to one to the distinct non-empty
\* prefixes of the inserted strings; an insert follows the existing
\* transition for a byte and creates a state, appended to the transitions of
\* the current state, only when there is none.
C19_TrieOfPrefixes == []C19_State /\ [][C19_Step]_vars

\* an insert has ended on a state that already had a transition: it reused
\* the path and created nothing
C19_Witness ==
    /\ pc = "build" /\ bld.loop # "root"
    /\ \E s \in 2..Len(aut.State) :
         /\ aut.State[s].transitions # << >>
         /\ aut.State[s].results # NULL
    /\ Len(aut.Result) = 2

\* what the k-th extendForest call of buildForestFromPattern (k from 1)
\* inserts: the bytes and the id
InsertOf(k) ==
    IF k <= Len(pat.parts)
    THEN [bytes |-> PartChars(pat.parts[k]), id |-> k - 1]
    ELSE [bytes |-> << pat.complement[k - Len(pat.parts)].ch >>,
          id |-> Len(pat.parts) + (k - Len(pat.parts) - 1)]

\* Result number k is the record of the k-th insert, and getTotalMatches
\* decodes it as that fragment or complement
C20_State ==
    ForestBuilt =>
        \A k \in 1..Len(aut.Result) :
            LET rec == aut.Result[k]
            IN /\ rec.pat_idx = InsertOf(k).id
               /\ rec.length = Len(InsertOf(k).bytes)
               /\ IsComplementRecord(rec) <=> k > Len(pat.parts)
               /\ ~IsComplementRecord(rec) =>
                      TotalOff(pat, rec)
                          = pat.parts[k].offset + pat.parts[k].length - 1
               /\ IsComplementRecord(rec) =>
                      /\ rec.length = 1
                      /\ TotalOff(pat, rec)
                             = pat.complement[k - Len(pat.parts)].index
               /\ pc = "build" =>
                      \E n \in 1..Len(aut.Result) :
                          /\ n <= Len(ResultChain(aut, aut.State[WalkFrom(aut,
                                     Root, InsertOf(k).bytes)].results))
                          /\ ResultChain(aut, aut.State[WalkFrom(aut, Root,
                                     InsertOf(k).bytes)].results)[n] = k

\* one extendForest call of buildForestFromPattern
C20_Step ==
    (pc = "build" /\ bld.loop \in {"parts", "complement"}) =>
        LET k == Len(aut.Result) + 1
            ins == InsertOf(k)
            t == WalkFrom(aut', Root, ins.bytes)
            old == WalkFrom(aut, Root, ins.bytes)
        IN /\ k = IF bld.loop = "parts" THEN bld.i + 1
                  ELSE Len(pat.parts) + bld.i + 1
           /\ ins.id = IF bld.loop = "parts" THEN bld.i
                       ELSE Len(pat.parts) + bld.i
           /\ Len(aut'.Result) = k
           /\ aut'.Result[k] = [pat_idx |-> ins.id, length |-> Len(ins.bytes),
                                next |-> NULL]
           /\ t # NULL
           /\ ResultChain(aut', aut'.State[t].results)
                  = Append(IF old # NULL
                           THEN ResultChain(aut, aut.State[old].results)
                           ELSE << >>, k)
           /\ aut'.State[t].results_back = k
           /\ \A s \in 1..Len(aut.State) :
                  s # t => ResultChain(aut', aut'.State[s].results)
                             = ResultChain(aut, aut.State[s].results)

\* C20: buildForestFromPattern inserts fragment i with id i and complement j
\* as its one forbidden byte with id len(fragments) + j; an insert appends
\* one record (id, number of inserted bytes) to the end of the own list of
\* the terminal state and changes no other list; getTotalMatches takes a
\* record for a literal exactly when id < len(fragments) and finds the
\* offset of the fragment or complement that was inserted.
C20_RecordPerInsert == []C20_State /\ [][C20_Step]_vars

\* a fragment and a complement with the same byte: one state holds the
\* record of the fragment followed by the record of the complement
C20_Witness ==
    /\ pc = "build"
    /\ \E s \in 2..Len(aut.State) :
         LET l == ResultChain(aut, aut.State[s].results)
         IN /\ Len(l) = 2
            /\ ~IsComplementRecord(aut.Result[l[1]])
            /\ IsComplementRecord(aut.Result[l[2]])
            /\ aut.Result[l[1]].pat_idx < aut.Result[l[2]].pat_idx

\* the depth of state s: the number of transitions from the root to it
Depth(A, s) == Len(PathOf(A, s))

RECURSIVE HopsToRoot(_, _, _)
\* the number of fallback links from s to the root, -1 when more than fuel
\* links are followed without reaching it
HopsToRoot(A, s, fuel) ==
    IF s = Root THEN 0
    ELSE IF fuel = 0 \/ A.State[s].fallback = NULL THEN -1
    ELSE LET h == HopsToRoot(A, A.State[s].fallback, fuel - 1)
         IN IF h = -1 THEN -1 ELSE h + 1

RECURSIVE StepHops(_, _, _, _)
\* the number of fallback links stepMatching(&cs, c) follows before it
\* returns, -1 when it has not returned after fuel links
StepHops(A, cs, c, fuel) ==
    IF findTransition(A, cs, c) # 0 \/ A.State[cs].fallback = NULL THEN 0
    ELSE IF fuel = 0 THEN -1
    ELSE LET h == StepHops(A, A.State[cs].fallback, c, fuel - 1)
         IN IF h = -1 THEN -1 ELSE h + 1

\* the state stepMatching takes its transition from, after hops links
RECURSIVE AfterHops(_, _, _)
AfterHops(A, s, hops) ==
    IF hops = 0 THEN s ELSE AfterHops(A, A.State[s].fallback, hops - 1)

C21_State ==
    (pc \in {"compile", "scan", "scanned"}) =>
        /\ \A s \in 2..Len(aut.State) :
               aut.State[s].fallback # NULL =>
                   /\ Depth(aut, aut.State[s].fallback) < Depth(aut, s)
                   /\ HopsToRoot(aut, s, Len(aut.State)) \in 1..Depth(aut, s)
        /\ \A s \in 1..Len(aut.State) :
               \A k \in 1..Len(aut.State[s].transitions) :
                   Depth(aut, aut.State[s].transitions[k].dest)
                       = Depth(aut, s) + 1
        /\ Compiled =>
               \A s \in 2..Len(aut.State) : aut.State[s].fallback # NULL

C21_Step ==
    /\ (pc = "scan" /\ sc.at = "top" /\ sc'.at # "top") =>
           LET c == search_s[sc.i + 1]
               h == StepHops(aut, sc.cs, c, Len(aut.State))
           IN /\ h \in 0..Depth(aut, sc.cs)
              /\ sc'.cs # AfterHops(aut, sc.cs, h) =>
                     Depth(aut, sc'.cs)
                         = Depth(aut, AfterHops(aut, sc.cs, h)) + 1
              /\ Depth(aut, sc'.cs) <= Depth(aut, sc.cs) + 1
    /\ (pc = "compile" /\ fsm.s # NULL) =>
           LET c == aut.State[fsm.s].transitions[fsm.t + 1].ch
           IN fsm.sf # NULL =>
                  StepHops(aut, fsm.sf, c, Len(aut.State))
                      \in 0..Depth(aut, fsm.sf)

\* C21: every fallback that has been assigned leads to a strictly shallower
\* state, so a fallback chain reaches the root in at most depth hops and
\* the loops of stepMatching and findFallback follow at most that many
\* links; a transition leads to a state exactly one deeper.
C21_FallbackShallower == []C21_State /\ [][C21_Step]_vars

\* stepMatching has followed a fallback link from a state two deep and then
\* taken a transition
C21_Witness ==
    /\ pc = "scan" /\ sc.at # "top" /\ sc.i = 2
    /\ Depth(aut, sc.cs) = 2
    /\ \E s \in 2..Len(aut.State) :
         /\ Depth(aut, s) = 2
         /\ findTransition(aut, s, search_s[3]) = 0
         /\ WalkFrom(aut, Root, SubSeq(search_s, 1, 2)) = s
         /\ sc.cs = WalkFrom(aut, aut.State[s].fallback, << search_s[3] >>)

AllStates == 1..Len(aut.State)
AllResults == 1..Len(aut.Result)

C22_State ==
    /\ "use_after_free" \notin ub
    /\ pc \notin {"destroy", "done"} => dsm = DsmInit
    /\ pc = "destroy" =>
           /\ \A k \in 1..Len(dsm.q) : dsm.q[k] \notin dsm.freedState
           /\ \A j, k \in 1..Len(dsm.q) : j # k => dsm.q[j] # dsm.q[k]
    /\ pc = "done" =>
           /\ dsm.freedState = AllStates
           /\ dsm.freedResult = AllResults

\* one iteration of the while loop of destroyStateMachine, and the calls
\* main makes
C22_Step ==
    /\ (pc = "destroy" /\ dsm.q # << >>) =>
           LET s == Head(dsm.q)
               F == buildForestFromPattern(pat)
               freed == dsm'.freedResult \ dsm.freedResult
           IN /\ dsm'.freedState = dsm.freedState \cup {s}
              /\ s \notin dsm.freedState
              /\ aut.State[s].results_back # 0 =>
                     aut.State[s].results_back
                         \in Range(OwnRecords(F, s)) \ dsm.freedResult
              /\ freed = Range(OwnRecords(F, s))
              /\ dsm'.freedResult = dsm.freedResult \cup freed
              /\ freed \cap dsm.freedResult = {}
              /\ ResultChain(aut', aut'.State[s].results) = OwnRecords(F, s)
              /\ Range(SubSeq(dsm'.q, Len(dsm.q), Len(dsm'.q)))
                     = {aut.State[s].transitions[k].dest :
                          k \in 1..Len(aut.State[s].transitions)}
              /\ \A t \in AllStates \ {s} : aut'.State[t] = aut.State[t]
    /\ (pc # "destroy" /\ pc' = "destroy") =>
           /\ pc = "scanned"
           /\ dsm = DsmInit /\ dsm'.q = << Root >>
    /\ pc = "done" => pc' = "done"
    /\ pc = "destroy" => pc' \in {"destroy", "done"}

\* C22: destroyStateMachine is entered once, after getTotalMatches has
\* returned, and never again; each iteration takes a state not yet freed,
\* queues the dests of its transitions, cuts the list after the state's own
\* records by a write into the state or its own last record, and frees
\* exactly the own records, none freed before, and the state; at the end
\* every state and every Result has been freed once.
C22_FreedExactlyOnce == []C22_State /\ [][C22_Step]_vars

\* the teardown has finished on an automaton in which a state had inherited
\* a record of its fallback
C22_Witness ==
    /\ pc = "done"
    /\ dsm.freedState = AllStates /\ dsm.freedResult = AllResults
    /\ Len(aut.Result) >= 2
    /\ LET F == buildForestFromPattern(pat)
           C == forestIntoStateMachine(F)
       IN \E s \in 2..Len(C.State) :
              /\ OwnRecords(F, s) # << >>
              /\ Len(ResultChain(C, C.State[s].results))
                     > Len(OwnRecords(F, s))

\* C23 as stated: createPatternStructure reads no byte behind the
\* terminator of the pattern string and returns a Pattern that satisfies the
\* data-model invariants, for every pattern string, also one that ends with
\* the complement marker.
C23_ParserKeepsInvariants ==
    /\ "cps_read_past_end" \notin ub
    /\ pc # "parse" => WellFormed(pat)

\* ===================================================== the max-flow program
\* src/Parfentev/lab3/Source/lab3.cpp.  Node ids are 0..NumNodes-1, the
\* edges of node n are mf.nodes[n + 1], edge index e is element e + 1.
NumNodes == 3
MaxEdges == 3
MaxCap == 2

Nodes == 0..(NumNodes - 1)

\* the wildcard matcher does not run
MatcherOff ==
    /\ pc = "off"
    /\ search_s = << >> /\ pattern = << >>
    /\ wildcard = "?" /\ complement = "~"
    /\ cps = CpsInit
    /\ pat = [parts |-> << >>, complement |-> << >>, length |-> 0]
    /\ aut = EmptyHeap /\ bld = BldInit /\ fsm = FsmInit
    /\ sc = ScInit([length |-> 0])
    /\ run = 1 /\ first_matches = << >> /\ dsm = DsmInit /\ ub = {}

Abs(x) == IF x < 0 THEN -x ELSE x

\* Edge::avail
avail(e) == Abs(e.max_flux) - e.current_flux

edge(g, n, e) == g[n + 1][e + 1]

\* Graph::add_edge on the vector of nodes g
add_edge(g, n1, n2, w) ==
    LET e1idx == Len(g[n1 + 1])
        e2idx == Len(g[n2 + 1])
        g1 == [g EXCEPT ![n1 + 1] =
                 Append(@, [dest |-> n2, max_flux |-> w, current_flux |-> 0,
                            rev_idx |-> e2idx])]
    IN [g1 EXCEPT ![n2 + 1] =
          Append(@, [dest |-> n1, max_flux |-> -w, current_flux |-> w,
                     rev_idx |-> e1idx])]

RECURSIVE read_graph(_, _)
\* the loop of read_graph over the edge lines still to read
read_graph(g, lines) ==
    IF lines = << >> THEN g
    ELSE read_graph(add_edge(g, Head(lines).n1, Head(lines).n2,
                             Head(lines).w), Tail(lines))

\* Graph::mod_edge
mod_edge(g, n, e, dw) ==
    LET d == edge(g, n, e).dest
        r == edge(g, n, e).rev_idx
        g1 == [g EXCEPT ![n + 1][e + 1].current_flux = @ + dw]
    IN [g1 EXCEPT ![d + 1][r + 1].current_flux = @ - dw]

Min2(a, b) == IF a < b THEN a ELSE b

IntMax == 2147483647

RECURSIVE path_flux(_, _, _, _, _)
\* Graph::path_flux from node n with the rest p of the path, minimum f so far
path_flux(g, n, end, p, f) ==
    IF n = end THEN f
    ELSE path_flux(g, edge(g, n, Head(p)).dest, end, Tail(p),
                   Min2(f, avail(edge(g, n, Head(p)))))

RECURSIVE apply_flux(_, _, _, _, _)
apply_flux(g, n, end, p, f) ==
    IF n = end THEN g
    ELSE apply_flux(mod_edge(g, n, Head(p), f), edge(g, n, Head(p)).dest,
                    end, Tail(p), f)

RECURSIVE recover_path(_, _, _, _)
\* recover_path: from node n back to start along rev, the path reversed
recover_path(g, start, rev, n) ==
    IF n = start THEN << >>
    ELSE LET e == edge(g, n, rev[n])
         IN Append(recover_path(g, start, rev, e.dest), e.rev_idx)

\* EdgeCmpRef::compare with std::greater: a is below b in the queue order
edgecmpref_less(g, a, b) ==
    LET dst1 == edge(g, a.src, a.idx).dest
        dst2 == edge(g, b.src, b.idx).dest
        diff1 == Abs(dst1 - a.src)
        diff2 == Abs(dst2 - b.src)
    IN IF diff1 # diff2 THEN diff1 > diff2 ELSE dst1 > dst2

\* the elements q.top() can return: those no other element is above
QueueTop(g, q) == {a \in q : \A b \in q : ~edgecmpref_less(g, a, b)}

\* the edges find_path pushes when it visits n
PushedEdges(g, visited, n) ==
    {[src |-> n, idx |-> ei] : ei \in
        {ei \in 0..(Len(g[n + 1]) - 1) :
            /\ edge(g, n, ei).dest \notin visited
            /\ avail(edge(g, n, ei)) > 0}}

MfInit ==
    /\ \E lines \in SeqsUpTo([n1 : Nodes, n2 : Nodes, w : 1..MaxCap],
                             MaxEdges) :
       \E start \in Nodes, end \in Nodes :
         /\ \A k \in 1..Len(lines) : lines[k].n1 # lines[k].n2
         /\ start # end
         /\ mf = [pc |-> "get_max_flux",
                  nodes |-> read_graph([n \in 1..NumNodes |-> << >>], lines),
                  start |-> start, end |-> end, total |-> 0,
                  q |-> {}, visited |-> {}, rev |-> [n \in Nodes |-> -1],
                  n |-> start, p |-> << >>, ub |-> {}]
    /\ MatcherOff
    /\ kmp = Off
    /\ l5 = Off

\* get_max_flux calls find_path: its locals before the while loop
MfFindPath ==
    /\ mf.pc = "get_max_flux"
    /\ mf' = [mf EXCEPT !.pc = "while", !.q = {}, !.visited = {},
                        !.rev = [n \in Nodes |-> -1], !.n = mf.start,
                        !.p = << >>]
    /\ UNCHANGED <<matcherVars, kmp, l5>>

\* the head of the while body: n is visited, its edges are pushed, and the
\* empty path is returned when the queue is empty
MfVisit ==
    /\ mf.pc = "while"
    /\ mf.n # mf.end
    /\ LET visited == mf.visited \cup {mf.n}
           q == mf.q \cup PushedEdges(mf.nodes, visited, mf.n)
       IN mf' = [mf EXCEPT !.visited = visited, !.q = q,
                           !.pc = IF q = {} THEN "returned" ELSE "do",
                           !.p = << >>]
    /\ UNCHANGED <<matcherVars, kmp, l5>>

\* one iteration of the do-while loop: q.top(), q.pop().  On an empty queue
\* both are undefined: the build either faults or keeps reading the stale
\* front element, whose destination is visited, and never leaves the loop.
MfPop ==
    /\ mf.pc = "do"
    /\ IF mf.q = {}
       THEN \E outcome \in {"crash", "hang"} :
              mf' = [mf EXCEPT !.pc = outcome,
                               !.ub = @ \cup {"empty_queue_top"}]
       ELSE \E er \in QueueTop(mf.nodes, mf.q) :
              LET r == edge(mf.nodes, er.src, er.idx).rev_idx
                  n == edge(mf.nodes, er.src, er.idx).dest
              IN mf' = [mf EXCEPT !.q = mf.q \ {er}, !.n = n,
                                  !.rev = IF n \in mf.visited THEN @
                                          ELSE [@ EXCEPT ![n] = r],
                                  !.pc = IF n \in mf.visited THEN "do"
                                         ELSE "while"]
    /\ UNCHANGED <<matcherVars, kmp, l5>>

\* n == g.end: return recover_path(g, rev)
MfRecover ==
    /\ mf.pc = "while"
    /\ mf.n = mf.end
    /\ mf' = [mf EXCEPT !.pc = "returned",
                        !.p = recover_path(mf.nodes, mf.start, mf.rev, mf.end)]
    /\ UNCHANGED <<matcherVars, kmp, l5>>

\* get_max_flux with a non-empty path: path_flux, apply_flux, total += f
MfApply ==
    /\ mf.pc = "returned"
    /\ mf.p # << >>
    /\ LET f == path_flux(mf.nodes, mf.start, mf.end, mf.p, IntMax)
       IN mf' = [mf EXCEPT !.nodes = apply_flux(mf.nodes, mf.start, mf.end,
                                                mf.p, f),
                           !.total = @ + f, !.pc = "get_max_flux"]
    /\ UNCHANGED <<matcherVars, kmp, l5>>

\* get_max_flux with the empty path: break, return total
MfBreak ==
    /\ mf.pc = "returned"
    /\ mf.p = << >>
    /\ mf' = [mf EXCEPT !.pc = "done"]
    /\ UNCHANGED <<matcherVars, kmp, l5>>

MfNext ==
    \/ MfFindPath
    \/ MfVisit
    \/ MfPop
    \/ MfRecover
    \/ MfApply
    \/ MfBreak

SpecFlow == MfInit /\ [][MfNext]_vars

RECURSIVE ReachableFrom(_, _)
\* the nodes reached from those of S through edges with avail() > 0
ReachableFrom(g, S) ==
    LET T == S \cup UNION {{edge(g, n, e).dest :
                              e \in {e \in 0..(Len(g[n + 1]) - 1) :
                                        avail(edge(g, n, e)) > 0}} : n \in S}
    IN IF T = S THEN S ELSE ReachableFrom(g, T)

\* C24 as stated: find_path never takes or pops the top of an empty queue,
\* so that get_max_flux neither faults nor hangs, and it returns the empty
\* path when the end cannot be reached through edges with capacity left.
C24_FindPathSafe ==
    /\ "empty_queue_top" \notin mf.ub
    /\ mf.pc \notin {"crash", "hang"}
    /\ (mf.pc = "returned" /\ mf.end \notin ReachableFrom(mf.nodes, {mf.start}))
           => mf.p = << >>

\* ================================================== the parallel KMP search
\* src/unnamed/part_001 lines 1-300 (Go).  Strings are sequences of bytes,
\* byte i of s is s[i + 1].
MaxHaystack == 4
MaxNeedle == 2
MaxRanges == 3

RECURSIVE prefixAt(_, _, _, _)
prefixAt(n, np, c, i) ==
    IF i < Len(n) /\ c = n[i + 1] THEN i + 1
    ELSE IF i = 0 THEN 0
    ELSE prefixAt(n, np, c, np[i])

RECURSIVE prefixLoop(_, _, _)
\* the for loop of prefix from index i with the slice p filled below i
prefixLoop(s, p, i) ==
    IF i >= Len(s) THEN p
    ELSE prefixLoop(s, Append(p, prefixAt(s, p, s[i + 1], p[i])), i + 1)

\* prefix(s): nil for the empty string
prefix(s) == IF Len(s) = 0 THEN << >> ELSE prefixLoop(s, << 0 >>, 1)

RECURSIVE findMatchesLoop(_, _, _, _, _, _, _)
findMatchesLoop(haystack, needle, n_prefix, offset, i, prev, matches) ==
    IF i >= Len(haystack) THEN [matches |-> matches, prev |-> prev]
    ELSE LET real_idx == offset + i
             prev2 == prefixAt(needle, n_prefix, haystack[i + 1], prev)
         IN findMatchesLoop(haystack, needle, n_prefix, offset, i + 1, prev2,
                            IF prev2 = Len(needle)
                            THEN Append(matches, real_idx - Len(needle) + 1)
                            ELSE matches)

findMatches(haystack, needle, n_prefix, initial, offset) ==
    findMatchesLoop(haystack, needle, n_prefix, offset, 0, initial, << >>)

\* Go's / and % on int: the quotient is truncated toward zero
GoDiv(a, b) ==
    IF (a >= 0) = (b > 0) THEN Abs(a) \div Abs(b) ELSE -(Abs(a) \div Abs(b))

GoRem(a, b) == a - b * GoDiv(a, b)

\* a Range that leaves out the bytes of overlap with the next range
MakeRange_NoOverlap(offset, match_len, prematch_area) ==
    [offset |-> offset,
     length |-> IF prematch_area > 0 THEN match_len ELSE match_len + prematch_area]

\* Range{offset, match_len + prematch_area}
MakeRange(offset, match_len, prematch_area) ==
    [offset |-> offset, length |-> match_len + prematch_area]

RECURSIVE splitLoop(_, _, _, _, _, _, _)
\* the for loop of splitKmpWork
splitLoop(i, n_ranges, match_one_rem, match_len, offset, prematch_area, ranges) ==
    IF i >= n_ranges THEN ranges
    ELSE LET ml == IF i = match_one_rem THEN match_len - 1 ELSE match_len
         IN splitLoop(i + 1, n_ranges, match_one_rem, ml, offset + ml,
                      prematch_area,
                      Append(ranges, MakeRange(offset, ml, prematch_area)))

\* splitKmpWork: [err |-> the runtime error or "", ranges |-> the result]
splitKmpWork(len_s, len_substr, n_ranges0) ==
    LET prematch_area == len_substr - 1
        match_area == len_s - prematch_area
        n_ranges == IF n_ranges0 > match_area THEN match_area ELSE n_ranges0
    IN IF n_ranges = 0
       THEN [err |-> "integer divide by zero", ranges |-> << >>]
       ELSE IF n_ranges < 0
       THEN [err |-> "makeslice: cap out of range", ranges |-> << >>]
       ELSE [err |-> "",
             ranges |-> splitLoop(0, n_ranges, GoRem(match_area, n_ranges),
                                  GoDiv(match_area, n_ranges) + 1, 0,
                                  prematch_area, << >>)]

\* haystack[offset : end]
Slice(s, offset, end) == SubSeq(s, offset + 1, end)

RECURSIVE Flatten(_)
\* the final loop of parallelFindMatches: append(matches, res...)
Flatten(results) ==
    IF results = << >> THEN << >>
    ELSE Head(results) \o Flatten(Tail(results))

KmpInit ==
    /\ \E haystack \in SeqsUpTo(Letters, MaxHaystack),
          needle \in SeqsUpTo(Letters, MaxNeedle),
          n_ranges \in 1..MaxRanges :
         kmp = [pc |-> "search", haystack |-> haystack, needle |-> needle,
                n_ranges |-> n_ranges, n_prefix |-> << >>, ranges |-> << >>,
                spawned |-> 0, go |-> << >>, results |-> << >>, received |-> 0,
                total |-> 0, matches |-> << >>, err |-> ""]
    /\ MatcherOff
    /\ mf = Off
    /\ l5 = Off

\* ParallelSearchSubstring: prefix and splitKmpWork; a runtime error in
\* splitKmpWork ends the program
KmpSplit ==
    /\ kmp.pc = "search"
    /\ LET r == splitKmpWork(Len(kmp.haystack), Len(kmp.needle), kmp.n_ranges)
       IN kmp' = [kmp EXCEPT !.n_prefix = prefix(kmp.needle),
                             !.ranges = r.ranges, !.err = r.err,
                             !.pc = IF r.err # "" THEN "panic" ELSE "spawn"]
    /\ UNCHANGED <<matcherVars, mf, l5>>

\* one iteration of the first loop of parallelFindMatches: go func(i) with
\* its own offset and piece; after the last one the results slice is made
KmpSpawn ==
    /\ kmp.pc = "spawn"
    /\ IF kmp.spawned < Len(kmp.ranges)
       THEN LET rng == kmp.ranges[kmp.spawned + 1]
            IN kmp' = [kmp EXCEPT
                   !.go = Append(@, [at |-> "findMatches",
                                     offset |-> rng.offset,
                                     piece |-> Slice(kmp.haystack, rng.offset,
                                                     rng.offset + rng.length),
                                     m |-> << >>]),
                   !.spawned = @ + 1]
       ELSE kmp' = [kmp EXCEPT !.pc = "receive",
                               !.results = [k \in 1..Len(kmp.ranges) |-> << >>]]
    /\ UNCHANGED <<matcherVars, mf, l5>>

\* goroutine i runs findMatches on its piece and then waits to send
KmpWork(i) ==
    /\ kmp.pc \in {"spawn", "receive"}
    /\ kmp.go[i].at = "findMatches"
    /\ kmp' = [kmp EXCEPT
           ![ "go" ][i].m = findMatches(kmp.go[i].piece, kmp.needle,
                                        kmp.n_prefix, 0, kmp.go[i].offset).matches,
           ![ "go" ][i].at = "send"]
    /\ UNCHANGED <<matcherVars, mf, l5>>

\* res := <-finish_ch meets the send of goroutine i: results[res.idx] = res.mat
KmpReceive(i) ==
    /\ kmp.pc = "receive"
    /\ kmp.received < Len(kmp.ranges)
    /\ kmp.go[i].at = "send"
    /\ kmp' = [kmp EXCEPT ![ "go" ][i].at = "done",
                          !.results[i] = kmp.go[i].m,
                          !.total = @ + Len(kmp.go[i].m),
                          !.received = @ + 1]
    /\ UNCHANGED <<matcherVars, mf, l5>>

\* the receive loop has ended: the results are concatenated and returned
KmpMerge ==
    /\ kmp.pc = "receive"
    /\ kmp.received >= Len(kmp.ranges)
    /\ kmp' = [kmp EXCEPT !.matches = Flatten(kmp.results), !.pc = "done"]
    /\ UNCHANGED <<matcherVars, mf, l5>>

KmpNext ==
    \/ KmpSplit
    \/ KmpSpawn
    \/ \E i \in 1..MaxRanges + 1 : i <= Len(kmp.go) /\ KmpWork(i)
    \/ \E i \in 1..MaxRanges + 1 : i <= Len(kmp.go) /\ KmpReceive(i)
    \/ KmpMerge

SpecKmp == KmpInit /\ [][KmpNext]_vars

\* ---------------------------------------------------------------- C25
\* the starts of the occurrences of needle in haystack
OccurrenceStarts(haystack, needle) ==
    {k \in 0..Len(haystack) - Len(needle) :
        SubSeq(haystack, k + 1, k + Len(needle)) = needle}

KmpInputOk ==
    /\ Len(kmp.needle) >= 1
    /\ Len(kmp.needle) <= Len(kmp.haystack)
    /\ kmp.n_ranges >= 1

KmpSequential ==
    findMatches(kmp.haystack, kmp.needle, prefix(kmp.needle), 0, 0).matches

\* C25: for a non-empty needle no longer than the haystack and n_ranges >= 1,
\* in every order of the workers' sends: the split succeeds; while the
\* receiver still waits for a message some worker has not sent yet (so no
\* receive blocks for ever); on return every range's worker has sent exactly
\* once and none is left blocked, and the returned list is the one a single
\* findMatches over the whole haystack gives, which is every match start
\* exactly once in increasing order.
C25_ParallelEqualsSequential ==
    (kmp.pc # "off" /\ KmpInputOk) =>
        /\ kmp.pc # "panic"
        /\ kmp.received = Cardinality({i \in 1..Len(kmp.go) : kmp.go[i].at = "done"})
        /\ (kmp.pc = "receive" /\ kmp.received < Len(kmp.ranges)) =>
               \E i \in 1..Len(kmp.go) : kmp.go[i].at \in {"findMatches", "send"}
        /\ kmp.pc = "done" =>
               /\ kmp.received = Len(kmp.ranges)
               /\ Len(kmp.go) = Len(kmp.ranges)
               /\ \A i \in 1..Len(kmp.go) : kmp.go[i].at = "done"
               /\ kmp.matches = KmpSequential
               /\ StrictlyIncreasing(kmp.matches)
               /\ {kmp.matches[a] : a \in 1..Len(kmp.matches)}
                      = OccurrenceStarts(kmp.haystack, kmp.needle)

\* a search over three ranges whose workers were received out of index order
\* (the last range first) and that found a match lying across a range border
C25_Witness ==
    /\ kmp.pc = "done"
    /\ KmpInputOk
    /\ Len(kmp.ranges) = 3
    /\ Len(kmp.needle) = 2
    /\ Len(kmp.matches) >= 2
    /\ \E a \in 1..Len(kmp.matches) : \E r \in 2..3 :
           /\ kmp.matches[a] < kmp.ranges[r].offset
           /\ kmp.matches[a] + Len(kmp.needle) > kmp.ranges[r].offset

\* ---------------------------------------------------------------- C26
\* C26: for every haystack, needle of length >= 1 and n_ranges >= 1,
\* splitKmpWork ends without a runtime error, and when the needle is longer
\* than the haystack it returns no range and the search returns no match.
C26_SplitNoRuntimeError ==
    (kmp.pc # "off" /\ Len(kmp.needle) >= 1 /\ kmp.n_ranges >= 1) =>
        /\ kmp.pc # "panic"
        /\ (kmp.pc = "done" /\ Len(kmp.needle) > Len(kmp.haystack)) =>
               (kmp.ranges = << >> /\ kmp.matches = << >>)

\* ======================================= the exact multi-pattern matcher
\* src/Parfentev/lab5/Source/aho-corasick.cpp; State, Result, extendForest,
\* forestIntoStateMachine, stepMatching and destroyStateMachine are the
\* same code as in the wildcard matcher.
MaxLab5Text == 3
MaxPatterns == 2
MaxLab5PatLen == 2

\* Match::operator<
MatchLess(a, b) ==
    IF a.start_idx = b.start_idx THEN a.pat_idx < b.pat_idx
    ELSE a.start_idx < b.start_idx

\* the Matches pushed for position i when only the first Result of the
\* list of cs is looked at
MatchesAt_FirstOnly(A, cs, i) ==
    LET chain == ResultChain(A, A.State[cs].results)
    IN [k \in 1..(IF chain = << >> THEN 0 ELSE 1) |->
          [pat_idx |-> A.Result[chain[k]].pat_idx,
           start_idx |-> i - A.Result[chain[k]].length + 1]]

\* the Matches pushed by the inner for loop of getMatches at position i
MatchesAt(A, cs, i) ==
    LET chain == ResultChain(A, A.State[cs].results)
    IN [k \in 1..Len(chain) |->
          [pat_idx |-> A.Result[chain[k]].pat_idx,
           start_idx |-> i - A.Result[chain[k]].length + 1]]

RECURSIVE SortMatches(_)
\* std::sort with Match::operator<: two Matches neither of which is less
\* than the other are equal, so the sorted vector is determined
SortMatches(ms) ==
    IF ms = << >> THEN << >>
    ELSE LET k == CHOOSE j \in 1..Len(ms) :
                      \A h \in 1..Len(ms) : ~MatchLess(ms[h], ms[j])
         IN << ms[k] >> \o
            SortMatches(SubSeq(ms, 1, k - 1) \o SubSeq(ms, k + 1, Len(ms)))

Lab5Init ==
    /\ \E text \in SeqsUpTo(Letters, MaxLab5Text),
          patterns \in SeqsUpTo(SeqsUpTo(Letters, MaxLab5PatLen), MaxPatterns) :
         l5 = [pc |-> "buildForest", search_s |-> text, patterns |-> patterns,
               aut |-> EmptyHeap, i |-> 0, cs |-> NULL, matches |-> << >>,
               out |-> << >>]
    /\ MatcherOff
    /\ mf = Off
    /\ kmp = Off

\* buildForest: new State for the root
Lab5BuildRoot ==
    /\ l5.pc = "buildForest"
    /\ l5.aut = EmptyHeap
    /\ l5' = [l5 EXCEPT !.aut = [State |-> << NewState >>, Result |-> << >>]]
    /\ UNCHANGED <<matcherVars, mf, kmp>>

\* one iteration of the for loop of buildForest
Lab5Extend ==
    /\ l5.pc = "buildForest"
    /\ l5.aut # EmptyHeap
    /\ l5.i < Len(l5.patterns)
    /\ l5' = [l5 EXCEPT !.aut = extendForest(@, Root, l5.patterns[l5.i + 1], l5.i),
                        !.i = @ + 1]
    /\ UNCHANGED <<matcherVars, mf, kmp>>

\* buildForest returns; forestIntoStateMachine(root); getMatches begins
Lab5Compile ==
    /\ l5.pc = "buildForest"
    /\ l5.aut # EmptyHeap
    /\ l5.i >= Len(l5.patterns)
    /\ l5' = [l5 EXCEPT !.aut = forestIntoStateMachine(@),
                        !.pc = "getMatches", !.i = 0, !.cs = Root]
    /\ UNCHANGED <<matcherVars, mf, kmp>>

\* one iteration of the for loop of getMatches
Lab5Step ==
    /\ l5.pc = "getMatches"
    /\ l5.i < Len(l5.search_s)
    /\ LET r == stepMatching(l5.aut, l5.cs, l5.search_s[l5.i + 1])
       IN l5' = [l5 EXCEPT !.cs = r.cs,
                           !.matches = IF r.ok
                                       THEN @ \o MatchesAt(l5.aut, r.cs, l5.i)
                                       ELSE @,
                           !.i = @ + 1]
    /\ UNCHANGED <<matcherVars, mf, kmp>>

\* getMatches returns; main sorts the matches and prints them one-based
Lab5Sort ==
    /\ l5.pc = "getMatches"
    /\ l5.i >= Len(l5.search_s)
    /\ LET sorted == SortMatches(l5.matches)
       IN l5' = [l5 EXCEPT !.matches = sorted,
                           !.out = [k \in 1..Len(sorted) |->
                                      << sorted[k].start_idx + 1,
                                         sorted[k].pat_idx + 1 >>],
                           !.pc = "printed"]
    /\ UNCHANGED <<matcherVars, mf, kmp>>

\* destroyStateMachine(root); return 0
Lab5Destroy ==
    /\ l5.pc = "printed"
    /\ l5' = [l5 EXCEPT !.aut = EmptyHeap, !.cs = NULL, !.pc = "done"]
    /\ UNCHANGED <<matcherVars, mf, kmp>>

Lab5Next ==
    \/ Lab5BuildRoot
    \/ Lab5Extend
    \/ Lab5Compile
    \/ Lab5Step
    \/ Lab5Sort
    \/ Lab5Destroy

SpecLab5 == Lab5Init /\ [][Lab5Next]_vars

\* ---------------------------------------------------------------- C27
\* pattern number k (0-based) occurs in the text at start s (0-based)
PatternOccursAt(k, s) ==
    LET p == l5.patterns[k + 1]
    IN /\ s + Len(p) <= Len(l5.search_s)
       /\ SubSeq(l5.search_s, s + 1, s + Len(p)) = p

\* the pairs whose occurrence ends before text position n
OccurrencesBefore(n) ==
    {[pat_idx |-> k, start_idx |-> s] :
        k \in 0..Len(l5.patterns) - 1, s \in 0..Len(l5.search_s)} \cap
    {m \in [pat_idx : 0..Len(l5.patterns) - 1, start_idx : 0..Len(l5.search_s)] :
        /\ PatternOccursAt(m.pat_idx, m.start_idx)
        /\ m.start_idx + Len(l5.patterns[m.pat_idx + 1]) <= n}

PatternsNonEmpty == \A k \in 1..Len(l5.patterns) : Len(l5.patterns[k]) >= 1

\* C27: for non-empty patterns, after i text bytes getMatches holds exactly
\* the pairs (pattern, start) of the occurrences ending in those bytes, each
\* once; after the sort the list holds every occurrence in the text exactly
\* once (equal patterns each under their own index), strictly ascending by
\* start and then by pattern index, and the printed lines are these pairs
\* one-based.
C27_ExactMatchesSorted ==
    (l5.pc \in {"getMatches", "printed", "done"} /\ PatternsNonEmpty) =>
        /\ Range(l5.matches) =
               OccurrencesBefore(IF l5.pc = "getMatches" THEN l5.i
                                 ELSE Len(l5.search_s))
        /\ Len(l5.matches) = Cardinality(Range(l5.matches))
        /\ l5.pc \in {"printed", "done"} =>
               /\ \A a, b \in 1..Len(l5.matches) :
                      a < b => MatchLess(l5.matches[a], l5.matches[b])
               /\ Len(l5.out) = Len(l5.matches)
               /\ \A a \in 1..Len(l5.out) :
                      l5.out[a] = << l5.matches[a].start_idx + 1,
                                     l5.matches[a].pat_idx + 1 >>

\* a printed run of at least three matches in which a pattern and a longer
\* pattern of lower index start at the same place (getMatches found the
\* shorter one first, so the sort moved it) and the shorter one was also
\* found through the result list inherited by the longer one's state
C27_Witness ==
    /\ l5.pc = "printed"
    /\ PatternsNonEmpty
    /\ Len(l5.matches) >= 3
    /\ \E a, b \in 1..Len(l5.patterns) :
           /\ b < a
           /\ Len(l5.patterns[a]) < Len(l5.patterns[b])
           /\ \E s \in 0..Len(l5.search_s) :
                  PatternOccursAt(a - 1, s) /\ PatternOccursAt(b - 1, s)
           /\ \E s \in 1..Len(l5.search_s) :
                  /\ PatternOccursAt(a - 1, s)
                  /\ PatternOccursAt(b - 1, s + Len(l5.patterns[a])
                                              - Len(l5.patterns[b]))
=============================================================================
